---- MODULE Spec2Model ----
(***************************************************************************)
(* Model of src/Caf.py: CAF_DROMCOMAnalyzer, the configuration resolver    *)
(* (_get_territoire_config), the time-series generator                     *)
(* (generate_financial_data with its nineteen _simulate_* methods) and the *)
(* era-adjustment pass (_add_caf_trends).                                  *)
(*                                                                         *)
(* Numbers.  The program computes with Python floats.  The model computes  *)
(* the same expressions over exact rationals <<numerator, denominator>>    *)
(* kept in lowest terms with a positive denominator, so that equal values  *)
(* are equal tuples.  Every decimal literal of the source is written       *)
(* Dec(n, d), e.g. 0.012 is Dec(12, 1000).                                 *)
(*                                                                         *)
(* Territory names are written without accents ("La Reunion" for           *)
(* "La Réunion", and so on); the names are only ever compared for equality.*)
(***************************************************************************)
EXTENDS Integers, Sequences, FiniteSets, TLC

VARIABLES
    territoire,   \* self.territoire
    start_year,   \* self.start_year
    end_year,     \* self.end_year
    config,       \* self.config
    rng,          \* state of the process-global generator behind np.random
    pc,           \* position in generate_financial_data ("ready": not inside it)
    dates,        \* local `dates` of generate_financial_data (the years of the index)
    data,         \* local dict `data`: column name -> list of values
    df,           \* local DataFrame `df`: column name -> list of values
    draws,        \* history: the factors np.random.normal returned, per column
    rng0,         \* history: the generator state at the start of each call
    returned      \* the tables returned so far, one per call of generate_financial_data

\* the state of main()
VARIABLES
    mpc,                     \* position in main ("none": main is not running)
    saisie,                  \* the line input() returned, as a list of characters
    territoire_selectionne,  \* local `territoire_selectionne`
    csv,                     \* the file written by to_csv: <<>> or <<header, rows>>
    preview,                 \* the rows printed by head(): <<>> or <<rows>>
    figure,                  \* the series create_financial_analysis has plotted, per column
    report,                  \* what _generate_financial_insights computed: <<>> or <<record>>
    revenue_growth,          \* local `revenue_growth`: <<>> or <<the float>>
    allocataires_growth,     \* local `allocataires_growth`: <<>> or <<the float>>
    growth_lines             \* the two growth lines printed: <<>> or the tenths shown by :.1f

mainvars == <<mpc, saisie, territoire_selectionne, csv, preview, figure, report,
              revenue_growth, allocataires_growth, growth_lines>>

vars == <<territoire, start_year, end_year, config, rng, pc, dates, data, df,
          draws, rng0, returned, mainvars>>

----------------------------------------------------------------------------
(* Bounds of the model *)

\* number of calls of generate_financial_data in one behaviour
MaxRuns == 2
\* seeds of the abstract generator are 0..MaxSeed
MaxSeed == 1
\* period of the abstract generator's stream
RngPeriod == 5

----------------------------------------------------------------------------
(* Exact rational arithmetic *)

Abs(x) == IF x < 0 THEN -x ELSE x

RECURSIVE GCD(_, _)
GCD(a, b) == IF b = 0 THEN a ELSE GCD(b, a % b)

\* n/d in lowest terms, d > 0
Dec(n, d) == LET g == GCD(Abs(n), d) IN <<n \div g, d \div g>>

RInt(n) == <<n, 1>>
One == RInt(1)

RMul(a, b) ==
    LET g1 == GCD(Abs(a[1]), b[2])
        g2 == GCD(Abs(b[1]), a[2])
    IN  <<(a[1] \div g1) * (b[1] \div g2), (a[2] \div g2) * (b[2] \div g1)>>

RAdd(a, b) == Dec(a[1] * b[2] + b[1] * a[2], a[2] * b[2])

RSub(a, b) == RAdd(a, <<-b[1], b[2]>>)

RPos(a) == a[1] > 0

\* membership that also accepts an element made of x and the suffix "_elevee"
InList_or_suffixed(x, list) == \E k \in DOMAIN list : list[k] = x \/ list[k] = x \o "_elevee"

\* Python's `x in list`
InList(x, list) == \E k \in DOMAIN list : list[k] = x

----------------------------------------------------------------------------
(* Configuration resolver *)

PresetNames ==
    {"Guadeloupe", "Martinique", "Guyane", "La Reunion", "Mayotte",
     "Saint-Martin", "Saint-Barthelemy", "Saint-Pierre-et-Miquelon",
     "Wallis-et-Futuna", "Polynesie francaise", "Nouvelle-Caledonie"}

\* the names a caller passes to the constructor: the presets, the literal
\* key "default", and a name that is not a key of the table
TerritoireNames == PresetNames \cup {"default", "Corse"}

Bundle(a, b, s) == [allocataires_base |-> a, budget_base |-> b, specificites |-> s]

configs ==
    ("Guadeloupe" :> Bundle(120000, 450, <<"familles_nombreuses", "precarite", "vieillesse">>))
 @@ ("Martinique" :> Bundle(110000, 420, <<"vieillesse", "dependance", "handicap">>))
 @@ ("Guyane" :> Bundle(85000, 380, <<"jeunesse", "familles_nombreuses", "precarite">>))
 @@ ("La Reunion" :> Bundle(220000, 680, <<"precarite", "emploi", "familles_monoparentales">>))
 @@ ("Mayotte" :> Bundle(65000, 280, <<"jeunesse", "familles_nombreuses", "precarite_elevee">>))
 @@ ("Saint-Martin" :> Bundle(18000, 85, <<"tourisme", "petite_enfance", "precarite">>))
 @@ ("Saint-Barthelemy" :> Bundle(5000, 45, <<"vieillesse", "tourisme", "revenus_eleves">>))
 @@ ("Saint-Pierre-et-Miquelon" :> Bundle(3500, 35, <<"isolement", "vieillesse", "petite_enfance">>))
 @@ ("Wallis-et-Futuna" :> Bundle(8000, 55, <<"traditions", "jeunesse", "isolement">>))
 @@ ("Polynesie francaise" :> Bundle(95000, 320, <<"isolement", "tourisme", "jeunesse">>))
 @@ ("Nouvelle-Caledonie" :> Bundle(105000, 380, <<"nickel", "vieillesse", "precarite">>))
 @@ ("default" :> Bundle(50000, 200, <<"prestations_familiales", "logement", "solidarite">>))

\* _get_territoire_config falling back to the first entry of the table
_get_territoire_config_first(name) ==
    IF name \in DOMAIN configs THEN configs[name] ELSE configs["Guadeloupe"]

\* configs.get(self.territoire, configs["default"])
_get_territoire_config(name) ==
    IF name \in DOMAIN configs THEN configs[name] ELSE configs["default"]

----------------------------------------------------------------------------
(* The process-global random generator.                                    *)
(* Its state fixes the whole stream of standard-normal deviates it will    *)
(* return; the model keeps a seed and a position in a stream of period     *)
(* RngPeriod.  Seed 0 is the stream whose deviates are all 0, i.e. every   *)
(* noise factor is exactly 1.0.  The other streams mix 0 with large        *)
(* deviates of both signs, so that factors above 1, below 1, equal to 0    *)
(* and below 0 all occur.                                                  *)

ZValues == <<0, 10, -10>>

Seeds == 0..MaxSeed

RngStates == [seed : Seeds, pos : 0..(RngPeriod - 1)]

\* the generator state after k further draws
rng_after(r, k) == [r EXCEPT !.pos = (r.pos + k) % RngPeriod]

standard_normal(r) == ZValues[((r.seed * (r.pos + 1)) % Len(ZValues)) + 1]

\* a draw that also depends on something the generator state does not fix
\* (here the number of tables returned so far)
np_random_normal_unseeded(r, loc, scale) ==
    RAdd(loc, RMul(scale, RInt(standard_normal(r) + Len(returned))))

\* np.random.normal(loc, scale) drawn in generator state r
np_random_normal(r, loc, scale) == RAdd(loc, RMul(scale, RInt(standard_normal(r))))

----------------------------------------------------------------------------
(* The series of generate_financial_data.  `dts` is the list of the years  *)
(* of `dates`; index i of the source's enumerate(dates) is k - 1 for the   *)
(* k-th element.  The i-th draw of a method is made in state               *)
(* rng_after(rng, i).                                                      *)

\* date_range without the end year
date_range_exclusive(s, e) == [k \in 1..(IF e > s THEN e - s ELSE 0) |-> s + k - 1]

\* date_range that puts an out-of-order range in order
date_range_swapped(s, e) ==
    [k \in 1..(IF e >= s THEN e - s + 1 ELSE s - e + 1) |-> (IF e >= s THEN s ELSE e) + k - 1]

\* pd.date_range(start=f'{start_year}-01-01', end=f'{end_year}-12-31', freq='Y'),
\* one year-end date per year, none when the range is out of order
date_range(s, e) == [k \in 1..(IF e >= s THEN e - s + 1 ELSE 0) |-> s + k - 1]

\* _simulate_allocataires with the index counted from 1
_simulate_allocataires_from_one(dts) ==
    LET base_allocataires == RInt(config.allocataires_base)
        growth_rate ==
            IF territoire \in {"Mayotte", "Guyane"} THEN Dec(25, 1000)
            ELSE IF territoire \in {"La Reunion", "Polynesie francaise"} THEN Dec(18, 1000)
            ELSE Dec(12, 1000)
        growth(i) == RAdd(One, RMul(growth_rate, RInt(i)))
    IN  [k \in 1..Len(dts) |-> RMul(base_allocataires, growth(k))]

\* Nombre_Allocataires: no noise
_simulate_allocataires(dts) ==
    LET base_allocataires == RInt(config.allocataires_base)
        growth_rate ==
            IF territoire \in {"Mayotte", "Guyane"} THEN Dec(25, 1000)
            ELSE IF territoire \in {"La Reunion", "Polynesie francaise"} THEN Dec(18, 1000)
            ELSE Dec(12, 1000)
        growth(i) == RAdd(One, RMul(growth_rate, RInt(i)))
    IN  [k \in 1..Len(dts) |-> RMul(base_allocataires, growth(k - 1))]

\* Prestations_Versees
_simulate_prestations(dts) ==
    LET base == RMul(RInt(config.budget_base), Dec(85, 100))
        growth(i) ==
            IF territoire \in {"Mayotte", "Guyane"}
            THEN RAdd(One, RMul(Dec(28, 1000), RInt(i)))
            ELSE IF territoire \in {"La Reunion", "Polynesie francaise"}
            THEN RAdd(One, RMul(Dec(22, 1000), RInt(i)))
            ELSE RAdd(One, RMul(Dec(18, 1000), RInt(i)))
        noise(i) == np_random_normal(rng_after(rng, i), One, Dec(7, 100))
    IN  [k \in 1..Len(dts) |->
            RMul(RMul(base, growth(k - 1)), noise(k - 1))]

\* _simulate_total_revenue with the high tier growing at the moderate rate
_simulate_total_revenue_two_rates(dts) ==
    LET base == RInt(config.budget_base)
        growth(i) ==
            IF territoire \in {"Mayotte", "Guyane"}
            THEN RAdd(One, RMul(Dec(42, 1000), RInt(i)))
            ELSE IF territoire \in {"La Reunion", "Polynesie francaise"}
            THEN RAdd(One, RMul(Dec(28, 1000), RInt(i)))
            ELSE RAdd(One, RMul(Dec(28, 1000), RInt(i)))
        noise(i) == np_random_normal(rng_after(rng, i), One, Dec(8, 100))
    IN  [k \in 1..Len(dts) |->
            RMul(RMul(base, growth(k - 1)), noise(k - 1))]

\* Recettes_Totales
_simulate_total_revenue(dts) ==
    LET base == RInt(config.budget_base)
        growth(i) ==
            IF territoire \in {"Mayotte", "Guyane"}
            THEN RAdd(One, RMul(Dec(42, 1000), RInt(i)))
            ELSE IF territoire \in {"La Reunion", "Polynesie francaise"}
            THEN RAdd(One, RMul(Dec(35, 1000), RInt(i)))
            ELSE RAdd(One, RMul(Dec(28, 1000), RInt(i)))
        noise(i) == np_random_normal(rng_after(rng, i), One, Dec(8, 100))
    IN  [k \in 1..Len(dts) |->
            RMul(RMul(base, growth(k - 1)), noise(k - 1))]

\* Cotisations_Sociales
_simulate_social_contributions(dts) ==
    LET base == RMul(RInt(config.budget_base), Dec(65, 100))
        growth(i) ==
            IF territoire \in {"Mayotte", "Guyane"}
            THEN RAdd(One, RMul(Dec(35, 1000), RInt(i)))
            ELSE IF territoire \in {"La Reunion", "Polynesie francaise"}
            THEN RAdd(One, RMul(Dec(28, 1000), RInt(i)))
            ELSE RAdd(One, RMul(Dec(22, 1000), RInt(i)))
        noise(i) == np_random_normal(rng_after(rng, i), One, Dec(6, 100))
    IN  [k \in 1..Len(dts) |->
            RMul(RMul(base, growth(k - 1)), noise(k - 1))]

\* state_increase with the threshold at 2005
state_increase_2005(year) ==
    IF year >= 2005
    THEN IF territoire \in {"Mayotte", "Guyane"}
         THEN RAdd(One, RMul(Dec(22, 1000), RInt(year - 2005)))
         ELSE IF territoire \in {"La Reunion", "Polynesie francaise"}
         THEN RAdd(One, RMul(Dec(18, 1000), RInt(year - 2005)))
         ELSE RAdd(One, RMul(Dec(15, 1000), RInt(year - 2005)))
    ELSE One

\* the year-gated factor `increase` of _simulate_state_contributions
state_increase(year) ==
    IF year >= 2010
    THEN IF territoire \in {"Mayotte", "Guyane"}
         THEN RAdd(One, RMul(Dec(22, 1000), RInt(year - 2010)))
         ELSE IF territoire \in {"La Reunion", "Polynesie francaise"}
         THEN RAdd(One, RMul(Dec(18, 1000), RInt(year - 2010)))
         ELSE RAdd(One, RMul(Dec(15, 1000), RInt(year - 2010)))
    ELSE One

\* Contributions_Etat
_simulate_state_contributions(dts) ==
    LET base_state == RMul(RInt(config.budget_base), Dec(30, 100))
        noise(i) == np_random_normal(rng_after(rng, i), One, Dec(5, 100))
    IN  [k \in 1..Len(dts) |->
            RMul(RMul(base_state, state_increase(dts[k])), noise(k - 1))]

\* _simulate_other_revenue with the index counted from 1
_simulate_other_revenue_from_one(dts) ==
    LET base_other == RMul(RInt(config.budget_base), Dec(5, 100))
        growth(i) == RAdd(One, RMul(Dec(25, 1000), RInt(i)))
        noise(i) == np_random_normal(rng_after(rng, i), One, Dec(10, 100))
    IN  [k \in 1..Len(dts) |-> RMul(RMul(base_other, growth(k)), noise(k - 1))]

\* Autres_Recettes
_simulate_other_revenue(dts) ==
    LET base_other == RMul(RInt(config.budget_base), Dec(5, 100))
        growth(i) == RAdd(One, RMul(Dec(25, 1000), RInt(i)))
        noise(i) == np_random_normal(rng_after(rng, i), One, Dec(10, 100))
    IN  [k \in 1..Len(dts) |-> RMul(RMul(base_other, growth(k - 1)), noise(k - 1))]

\* Depenses_Totales
_simulate_total_expenses(dts) ==
    LET base == RMul(RInt(config.budget_base), Dec(95, 100))
        growth(i) ==
            IF territoire \in {"Mayotte", "Guyane"}
            THEN RAdd(One, RMul(Dec(38, 1000), RInt(i)))
            ELSE IF territoire \in {"La Reunion", "Polynesie francaise"}
            THEN RAdd(One, RMul(Dec(32, 1000), RInt(i)))
            ELSE RAdd(One, RMul(Dec(26, 1000), RInt(i)))
        noise(i) == np_random_normal(rng_after(rng, i), One, Dec(7, 100))
    IN  [k \in 1..Len(dts) |->
            RMul(RMul(base, growth(k - 1)), noise(k - 1))]

\* Prestations_Familiales
_simulate_family_benefits(dts) ==
    LET base == RMul(RInt(config.budget_base), Dec(45, 100))
        multiplier == IF InList("familles_nombreuses", config.specificites) THEN Dec(14, 10) ELSE One
        growth(i) ==
            IF territoire \in {"Mayotte", "Guyane"}
            THEN RAdd(One, RMul(Dec(32, 1000), RInt(i)))
            ELSE IF territoire \in {"La Reunion", "Polynesie francaise"}
            THEN RAdd(One, RMul(Dec(28, 1000), RInt(i)))
            ELSE RAdd(One, RMul(Dec(22, 1000), RInt(i)))
        noise(i) == np_random_normal(rng_after(rng, i), One, Dec(6, 100))
    IN  [k \in 1..Len(dts) |->
            RMul(RMul(RMul(base, growth(k - 1)), multiplier), noise(k - 1))]

\* Prestations_Logement
_simulate_housing_benefits(dts) ==
    LET base == RMul(RInt(config.budget_base), Dec(25, 100))
        growth(i) ==
            IF territoire \in {"Mayotte", "Guyane"}
            THEN RAdd(One, RMul(Dec(35, 1000), RInt(i)))
            ELSE IF territoire \in {"La Reunion", "Polynesie francaise"}
            THEN RAdd(One, RMul(Dec(30, 1000), RInt(i)))
            ELSE RAdd(One, RMul(Dec(24, 1000), RInt(i)))
        noise(i) == np_random_normal(rng_after(rng, i), One, Dec(8, 100))
    IN  [k \in 1..Len(dts) |->
            RMul(RMul(base, growth(k - 1)), noise(k - 1))]

\* Prestations_Solidarite
_simulate_solidarity_benefits(dts) ==
    LET base == RMul(RInt(config.budget_base), Dec(20, 100))
        multiplier == IF InList("precarite", config.specificites) THEN Dec(15, 10) ELSE One
        growth(i) ==
            IF territoire \in {"Mayotte", "Guyane"}
            THEN RAdd(One, RMul(Dec(40, 1000), RInt(i)))
            ELSE IF territoire \in {"La Reunion", "Polynesie francaise"}
            THEN RAdd(One, RMul(Dec(35, 1000), RInt(i)))
            ELSE RAdd(One, RMul(Dec(28, 1000), RInt(i)))
        noise(i) == np_random_normal(rng_after(rng, i), One, Dec(9, 100))
    IN  [k \in 1..Len(dts) |->
            RMul(RMul(RMul(base, growth(k - 1)), multiplier), noise(k - 1))]

\* Frais_Gestion
_simulate_management_costs(dts) ==
    LET base_management == RMul(RInt(config.budget_base), Dec(5, 100))
        growth(i) == RAdd(One, RMul(Dec(2, 100), RInt(i)))
        noise(i) == np_random_normal(rng_after(rng, i), One, Dec(4, 100))
    IN  [k \in 1..Len(dts) |-> RMul(RMul(base_management, growth(k - 1)), noise(k - 1))]

\* the year-gated factor `improvement` of _simulate_coverage_rate
coverage_improvement(year) ==
    IF year >= 2010 THEN RAdd(One, RMul(Dec(5, 1000), RInt(year - 2010))) ELSE One

\* Taux_Couverture
_simulate_coverage_rate(dts) ==
    LET base_rate ==
            IF territoire \in {"Mayotte", "Guyane"} THEN Dec(85, 100)
            ELSE IF territoire \in {"La Reunion", "Polynesie francaise"} THEN Dec(88, 100)
            ELSE Dec(92, 100)
        noise(i) == np_random_normal(rng_after(rng, i), One, Dec(3, 100))
    IN  [k \in 1..Len(dts) |->
            RMul(RMul(base_rate, coverage_improvement(dts[k])), noise(k - 1))]

\* ratio_improvement with a yearly decrease of 0.3 instead of 0.003
ratio_improvement_steep(year) ==
    IF year >= 2010 THEN RSub(One, RMul(Dec(3, 10), RInt(year - 2010))) ELSE One

\* the year-gated factor `improvement` of _simulate_management_ratio
ratio_improvement(year) ==
    IF year >= 2010 THEN RSub(One, RMul(Dec(3, 1000), RInt(year - 2010))) ELSE One

\* _simulate_management_ratio testing the two lists of the growth rates
_simulate_management_ratio_growth_lists(dts) ==
    LET base_ratio ==
            IF territoire \in {"Mayotte", "Guyane"} THEN Dec(75, 1000)
            ELSE IF territoire \in {"La Reunion", "Polynesie francaise"} THEN Dec(65, 1000)
            ELSE Dec(55, 1000)
        noise(i) == np_random_normal(rng_after(rng, i), One, Dec(2, 100))
    IN  [k \in 1..Len(dts) |->
            RMul(RMul(base_ratio, ratio_improvement(dts[k])), noise(k - 1))]

\* Ratio_Gestion
_simulate_management_ratio(dts) ==
    LET base_ratio ==
            IF territoire \in {"Saint-Pierre-et-Miquelon", "Wallis-et-Futuna"} THEN Dec(75, 1000)
            ELSE IF territoire \in {"Mayotte", "Guyane"} THEN Dec(65, 1000)
            ELSE Dec(55, 1000)
        noise(i) == np_random_normal(rng_after(rng, i), One, Dec(2, 100))
    IN  [k \in 1..Len(dts) |->
            RMul(RMul(base_ratio, ratio_improvement(dts[k])), noise(k - 1))]

\* the factor of _simulate_account_balance counting the years from 2009
balance_improvement_from_2009(year) ==
    IF year >= 2010 THEN RAdd(One, RMul(Dec(1, 100), RInt(year - 2009))) ELSE One

\* the year-gated factor `improvement` of _simulate_account_balance
balance_improvement(year) ==
    IF year >= 2010 THEN RAdd(One, RMul(Dec(1, 100), RInt(year - 2010))) ELSE One

\* Solde_Compte
_simulate_account_balance(dts) ==
    LET base_balance == RMul(RInt(config.budget_base), Dec(3, 100))
        noise(i) == np_random_normal(rng_after(rng, i), One, Dec(15, 100))
    IN  [k \in 1..Len(dts) |->
            RMul(RMul(base_balance, balance_improvement(dts[k])), noise(k - 1))]

\* Allocations_Familiales
_simulate_family_allocations(dts) ==
    LET base == RMul(RInt(config.budget_base), Dec(25, 100))
        multiplier == IF InList("familles_nombreuses", config.specificites) THEN Dec(14, 10) ELSE One
        growth(i) ==
            IF territoire \in {"Mayotte", "Guyane"}
            THEN RAdd(One, RMul(Dec(30, 1000), RInt(i)))
            ELSE IF territoire \in {"La Reunion", "Polynesie francaise"}
            THEN RAdd(One, RMul(Dec(25, 1000), RInt(i)))
            ELSE RAdd(One, RMul(Dec(20, 1000), RInt(i)))
        noise(i) == np_random_normal(rng_after(rng, i), One, Dec(6, 100))
    IN  [k \in 1..Len(dts) |->
            RMul(RMul(RMul(base, growth(k - 1)), multiplier), noise(k - 1))]

\* ARS
_simulate_ars(dts) ==
    LET base == RMul(RInt(config.budget_base), Dec(8, 100))
        multiplier == IF InList("jeunesse", config.specificites) THEN Dec(13, 10) ELSE One
        growth(i) ==
            IF territoire \in {"Mayotte", "Guyane"}
            THEN RAdd(One, RMul(Dec(32, 1000), RInt(i)))
            ELSE IF territoire \in {"La Reunion", "Polynesie francaise"}
            THEN RAdd(One, RMul(Dec(28, 1000), RInt(i)))
            ELSE RAdd(One, RMul(Dec(22, 1000), RInt(i)))
        noise(i) == np_random_normal(rng_after(rng, i), One, Dec(7, 100))
    IN  [k \in 1..Len(dts) |->
            RMul(RMul(RMul(base, growth(k - 1)), multiplier), noise(k - 1))]

\* APL
_simulate_apl(dts) ==
    LET base == RMul(RInt(config.budget_base), Dec(20, 100))
        growth(i) ==
            IF territoire \in {"Mayotte", "Guyane"}
            THEN RAdd(One, RMul(Dec(36, 1000), RInt(i)))
            ELSE IF territoire \in {"La Reunion", "Polynesie francaise"}
            THEN RAdd(One, RMul(Dec(32, 1000), RInt(i)))
            ELSE RAdd(One, RMul(Dec(26, 1000), RInt(i)))
        noise(i) == np_random_normal(rng_after(rng, i), One, Dec(8, 100))
    IN  [k \in 1..Len(dts) |->
            RMul(RMul(base, growth(k - 1)), noise(k - 1))]

\* RSA
_simulate_rsa(dts) ==
    LET base == RMul(RInt(config.budget_base), Dec(15, 100))
        multiplier == IF InList("precarite", config.specificites) THEN Dec(16, 10) ELSE One
        growth(i) ==
            IF territoire \in {"Mayotte", "Guyane"}
            THEN RAdd(One, RMul(Dec(42, 1000), RInt(i)))
            ELSE IF territoire \in {"La Reunion", "Polynesie francaise"}
            THEN RAdd(One, RMul(Dec(38, 1000), RInt(i)))
            ELSE RAdd(One, RMul(Dec(30, 1000), RInt(i)))
        noise(i) == np_random_normal(rng_after(rng, i), One, Dec(9, 100))
    IN  [k \in 1..Len(dts) |->
            RMul(RMul(RMul(base, growth(k - 1)), multiplier), noise(k - 1))]

\* Prime_Naissance
_simulate_birth_grant(dts) ==
    LET base == RMul(RInt(config.budget_base), Dec(4, 100))
        multiplier == IF InList("jeunesse", config.specificites) THEN Dec(15, 10) ELSE One
        growth(i) ==
            IF territoire \in {"Mayotte", "Guyane"}
            THEN RAdd(One, RMul(Dec(26, 1000), RInt(i)))
            ELSE IF territoire \in {"La Reunion", "Polynesie francaise"}
            THEN RAdd(One, RMul(Dec(22, 1000), RInt(i)))
            ELSE RAdd(One, RMul(Dec(18, 1000), RInt(i)))
        noise(i) == np_random_normal(rng_after(rng, i), One, Dec(10, 100))
    IN  [k \in 1..Len(dts) |->
            RMul(RMul(RMul(base, growth(k - 1)), multiplier), noise(k - 1))]

----------------------------------------------------------------------------
(* The era-adjustment pass *)

\* in_range with the upper end of the range left out
in_range_exclusive(lo, year, hi) == lo <= year /\ year < hi

\* Python's chained comparison lo <= year <= hi
in_range(lo, year, hi) == lo <= year /\ year <= hi

\* the loop body with the 2008-2009 test chained to the 2006-2010 test by
\* `elif`
trend_row_crisis_chained(row) ==
    LET year == row["Annee"]
        r1 == IF in_range(2002, year, 2005)
              THEN [row EXCEPT !["Contributions_Etat"] = RMul(@, Dec(11, 10)),
                               !["Prestations_Familiales"] = RMul(@, Dec(115, 100))]
              ELSE row
        r2 == IF in_range(2006, year, 2010)
              THEN [r1 EXCEPT !["RSA"] = RMul(@, Dec(125, 100)),
                              !["Prestations_Solidarite"] = RMul(@, Dec(13, 10))]
              ELSE r1
        r3 == IF ~in_range(2006, year, 2010) /\ in_range(2008, year, 2009)
              THEN [r2 EXCEPT !["Cotisations_Sociales"] = RMul(@, Dec(92, 100)),
                              !["RSA"] = RMul(@, Dec(115, 100))]
              ELSE IF in_range(2011, year, 2015)
              THEN [r2 EXCEPT !["Contributions_Etat"] = RMul(@, Dec(112, 100)),
                              !["Allocations_Familiales"] = RMul(@, Dec(108, 100))]
              ELSE r2
        r4 == IF year = 2017
              THEN [r3 EXCEPT !["Contributions_Etat"] = RMul(@, Dec(118, 100)),
                              !["RSA"] = RMul(@, Dec(110, 100))]
              ELSE r3
        r5 == IF in_range(2020, year, 2021)
              THEN IF year = 2020
                   THEN [r4 EXCEPT !["Cotisations_Sociales"] = RMul(@, Dec(85, 100)),
                                   !["Contributions_Etat"] = RMul(@, Dec(125, 100)),
                                   !["RSA"] = RMul(@, Dec(135, 100))]
                   ELSE r4
              ELSE r4
        r6 == IF year >= 2022
              THEN [r5 EXCEPT !["Contributions_Etat"] = RMul(@, Dec(108, 100)),
                              !["Prestations_Logement"] = RMul(@, Dec(112, 100)),
                              !["ARS"] = RMul(@, Dec(110, 100))]
              ELSE r5
    IN  r6

\* the body of the loop of _add_caf_trends for one row: `row` maps the column
\* names to the row's values; each `df.loc[i, c] *= m` updates the row
trend_row(row) ==
    LET year == row["Annee"]
        r1 == IF in_range(2002, year, 2005)
              THEN [row EXCEPT !["Contributions_Etat"] = RMul(@, Dec(11, 10)),
                               !["Prestations_Familiales"] = RMul(@, Dec(115, 100))]
              ELSE row
        r2 == IF in_range(2006, year, 2010)
              THEN [r1 EXCEPT !["RSA"] = RMul(@, Dec(125, 100)),
                              !["Prestations_Solidarite"] = RMul(@, Dec(13, 10))]
              ELSE r1
        r3 == IF in_range(2008, year, 2009)
              THEN [r2 EXCEPT !["Cotisations_Sociales"] = RMul(@, Dec(92, 100)),
                              !["RSA"] = RMul(@, Dec(115, 100))]
              ELSE IF in_range(2011, year, 2015)
              THEN [r2 EXCEPT !["Contributions_Etat"] = RMul(@, Dec(112, 100)),
                              !["Allocations_Familiales"] = RMul(@, Dec(108, 100))]
              ELSE r2
        r4 == IF year = 2017
              THEN [r3 EXCEPT !["Contributions_Etat"] = RMul(@, Dec(118, 100)),
                              !["RSA"] = RMul(@, Dec(110, 100))]
              ELSE r3
        r5 == IF in_range(2020, year, 2021)
              THEN IF year = 2020
                   THEN [r4 EXCEPT !["Cotisations_Sociales"] = RMul(@, Dec(85, 100)),
                                   !["Contributions_Etat"] = RMul(@, Dec(125, 100)),
                                   !["RSA"] = RMul(@, Dec(135, 100))]
                   ELSE r4
              ELSE r4
        r6 == IF year >= 2022
              THEN [r5 EXCEPT !["Contributions_Etat"] = RMul(@, Dec(108, 100)),
                              !["Prestations_Logement"] = RMul(@, Dec(112, 100)),
                              !["ARS"] = RMul(@, Dec(110, 100))]
              ELSE r5
    IN  r6

\* _add_caf_trends with the loop run a second time over the adjusted table
_add_caf_trends_twice(t) ==
    LET once(u) == [c \in DOMAIN u |-> [i \in 1..Len(u["Annee"]) |->
                        trend_row([d \in DOMAIN u |-> u[d][i]])[c]]]
    IN  once(once(t))

\* _add_caf_trends(df): the table after the loop over df.iterrows()
_add_caf_trends(t) ==
    LET row(i) == [c \in DOMAIN t |-> t[c][i]]
    IN  [c \in DOMAIN t |-> [i \in 1..Len(t["Annee"]) |-> trend_row(row(i))[c]]]

----------------------------------------------------------------------------
(* The state machine *)

\* the columns of the table, in the order generate_financial_data fills them
Columns ==
    <<"Annee", "Nombre_Allocataires", "Prestations_Versees", "Recettes_Totales",
      "Cotisations_Sociales", "Contributions_Etat", "Autres_Recettes",
      "Depenses_Totales", "Prestations_Familiales", "Prestations_Logement",
      "Prestations_Solidarite", "Frais_Gestion", "Taux_Couverture",
      "Ratio_Gestion", "Solde_Compte", "Allocations_Familiales", "ARS", "APL",
      "RSA", "Prime_Naissance">>

Fields == {Columns[k] : k \in 2..Len(Columns)}

\* the year ranges a caller sets on the analyzer besides the constructor's
\* 2002..2025: a two-year range, a range starting inside the 2006-2010 and
\* 2008-2009 eras, and a range that is out of order
YearRanges == {<<2002, 2003>>, <<2009, 2011>>, <<2005, 2002>>}

NoTable == [Annee |-> <<>>]

\* process start and CAF_DROMCOMAnalyzer.__init__(territoire_name)
Init ==
    /\ territoire \in TerritoireNames
    /\ start_year = 2002
    /\ end_year = 2025
    /\ config = _get_territoire_config(territoire)
    /\ rng \in {r \in RngStates : r.pos = 0}
    /\ pc = "ready"
    /\ dates = <<>>
    /\ data = NoTable
    /\ df = NoTable
    /\ draws = <<>>
    /\ rng0 = <<>>
    /\ returned = <<>>
    /\ mpc = "none"
    /\ saisie = <<>>
    /\ territoire_selectionne = ""
    /\ csv = <<>>
    /\ preview = <<>>
    /\ figure = <<>>
    /\ report = <<>>
    /\ revenue_growth = <<>>
    /\ allocataires_growth = <<>>
    /\ growth_lines = <<>>

\* the caller assigns analyzer.start_year and analyzer.end_year before the
\* first call
set_years ==
    /\ pc = "ready"
    /\ returned = <<>>
    /\ start_year = 2002 /\ end_year = 2025
    /\ \E yr \in YearRanges : start_year' = yr[1] /\ end_year' = yr[2]
    /\ UNCHANGED mainvars
    /\ UNCHANGED <<territoire, config, rng, pc, dates, data, df, draws, rng0, returned>>

\* the program is started again with the same territory and year range: the
\* generator behind np.random starts from a state of its own
restart_process ==
    /\ pc = "ready"
    /\ returned # <<>>
    /\ Len(returned) < MaxRuns
    /\ Len(rng0) = Len(returned)
    /\ rng' \in {r \in RngStates : r.pos = 0}
    /\ rng0' = Append(rng0, rng')
    /\ UNCHANGED mainvars
    /\ UNCHANGED <<territoire, start_year, end_year, config, pc, dates, data, df,
                   draws, returned>>

\* generate_financial_data, lines 94-97: dates and data = {'Annee': [...]}
generate_financial_data ==
    /\ pc = "ready"
    /\ Len(returned) < MaxRuns
    /\ mpc \in {"none", "generate"}
    /\ mpc = "generate" => returned = <<>>
    /\ dates' = date_range(start_year, end_year)
    /\ data' = [Annee |-> [k \in 1..Len(dates') |-> dates'[k]]]
    /\ df' = NoTable
    /\ draws' = <<>>
    /\ rng0' = IF Len(rng0) = Len(returned) THEN Append(rng0, rng) ELSE rng0
    /\ pc' = "Nombre_Allocataires"
    /\ UNCHANGED mainvars
    /\ UNCHANGED <<territoire, start_year, end_year, config, rng, returned>>

\* the label after column c
NextLabel(c) ==
    LET k == CHOOSE j \in 1..Len(Columns) : Columns[j] = c
    IN  IF k < Len(Columns) THEN Columns[k + 1] ELSE "DataFrame"

\* data[c] = values, for a method that draws no noise
StoreExact(c, values) ==
    /\ pc = c
    /\ data' = data @@ (c :> values)
    /\ pc' = NextLabel(c)
    /\ UNCHANGED mainvars
    /\ UNCHANGED <<territoire, start_year, end_year, config, rng, dates, df,
                   draws, rng0, returned>>

\* data[c] = values, for a method that draws one factor
\* np.random.normal(1, scale) per year
StoreNoisy(c, values, scale) ==
    /\ pc = c
    /\ data' = data @@ (c :> values)
    /\ draws' = draws @@ (c :> [k \in 1..Len(dates) |->
                                  np_random_normal(rng_after(rng, k - 1), One, scale)])
    /\ rng' = rng_after(rng, Len(dates))
    /\ pc' = NextLabel(c)
    /\ UNCHANGED mainvars
    /\ UNCHANGED <<territoire, start_year, end_year, config, dates, df, rng0, returned>>

sim_allocataires == StoreExact("Nombre_Allocataires", _simulate_allocataires(dates))
sim_prestations == StoreNoisy("Prestations_Versees", _simulate_prestations(dates), Dec(7, 100))
sim_total_revenue == StoreNoisy("Recettes_Totales", _simulate_total_revenue(dates), Dec(8, 100))
sim_social_contributions == StoreNoisy("Cotisations_Sociales", _simulate_social_contributions(dates), Dec(6, 100))
sim_state_contributions == StoreNoisy("Contributions_Etat", _simulate_state_contributions(dates), Dec(5, 100))
sim_other_revenue == StoreNoisy("Autres_Recettes", _simulate_other_revenue(dates), Dec(10, 100))
sim_total_expenses == StoreNoisy("Depenses_Totales", _simulate_total_expenses(dates), Dec(7, 100))
sim_family_benefits == StoreNoisy("Prestations_Familiales", _simulate_family_benefits(dates), Dec(6, 100))
sim_housing_benefits == StoreNoisy("Prestations_Logement", _simulate_housing_benefits(dates), Dec(8, 100))
sim_solidarity_benefits == StoreNoisy("Prestations_Solidarite", _simulate_solidarity_benefits(dates), Dec(9, 100))
sim_management_costs == StoreNoisy("Frais_Gestion", _simulate_management_costs(dates), Dec(4, 100))
sim_coverage_rate == StoreNoisy("Taux_Couverture", _simulate_coverage_rate(dates), Dec(3, 100))
sim_management_ratio == StoreNoisy("Ratio_Gestion", _simulate_management_ratio(dates), Dec(2, 100))
sim_account_balance == StoreNoisy("Solde_Compte", _simulate_account_balance(dates), Dec(15, 100))
sim_family_allocations == StoreNoisy("Allocations_Familiales", _simulate_family_allocations(dates), Dec(6, 100))
sim_ars == StoreNoisy("ARS", _simulate_ars(dates), Dec(7, 100))
sim_apl == StoreNoisy("APL", _simulate_apl(dates), Dec(8, 100))
sim_rsa == StoreNoisy("RSA", _simulate_rsa(dates), Dec(9, 100))
sim_birth_grant == StoreNoisy("Prime_Naissance", _simulate_birth_grant(dates), Dec(10, 100))

\* df = pd.DataFrame(data): the frame holds its own copy of the lists
make_dataframe ==
    /\ pc = "DataFrame"
    /\ df' = data
    /\ pc' = "_add_caf_trends"
    /\ UNCHANGED mainvars
    /\ UNCHANGED <<territoire, start_year, end_year, config, rng, dates, data,
                   draws, rng0, returned>>

\* the era pass also raising the APL of the years from 2022 on and
\* dropping the last row
add_caf_trends_wider ==
    /\ pc = "_add_caf_trends"
    /\ df' = [c \in DOMAIN df |->
                [i \in 1..(Len(df["Annee"]) - 1) |->
                    IF c = "APL" /\ df["Annee"][i] >= 2022
                    THEN RMul(df[c][i], Dec(112, 100))
                    ELSE _add_caf_trends(df)[c][i]]]
    /\ pc' = "return"
    /\ UNCHANGED mainvars
    /\ UNCHANGED <<territoire, start_year, end_year, config, rng, dates, data,
                   draws, rng0, returned>>

\* self._add_caf_trends(df)
add_caf_trends ==
    /\ pc = "_add_caf_trends"
    /\ df' = _add_caf_trends(df)
    /\ pc' = "return"
    /\ UNCHANGED mainvars
    /\ UNCHANGED <<territoire, start_year, end_year, config, rng, dates, data,
                   draws, rng0, returned>>

\* return df
return_df ==
    /\ pc = "return"
    /\ returned' = Append(returned, df)
    /\ pc' = "ready"
    /\ UNCHANGED mainvars
    /\ UNCHANGED <<territoire, start_year, end_year, config, rng, dates, data, df,
                   draws, rng0>>

Next ==
    \/ set_years
    \/ restart_process
    \/ generate_financial_data
    \/ sim_allocataires
    \/ sim_prestations
    \/ sim_total_revenue
    \/ sim_social_contributions
    \/ sim_state_contributions
    \/ sim_other_revenue
    \/ sim_total_expenses
    \/ sim_family_benefits
    \/ sim_housing_benefits
    \/ sim_solidarity_benefits
    \/ sim_management_costs
    \/ sim_coverage_rate
    \/ sim_management_ratio
    \/ sim_account_balance
    \/ sim_family_allocations
    \/ sim_ars
    \/ sim_apl
    \/ sim_rsa
    \/ sim_birth_grant
    \/ make_dataframe
    \/ add_caf_trends
    \/ return_df

Spec == Init /\ [][Next]_vars

TypeOK ==
    /\ territoire \in TerritoireNames
    /\ pc \in {"ready", "DataFrame", "_add_caf_trends", "return"} \cup Fields
    /\ Len(returned) <= MaxRuns

----------------------------------------------------------------------------
(* main() *)

\* the list `territoires` of main
territoires ==
    <<"Guadeloupe", "Martinique", "Guyane", "La Reunion", "Mayotte",
      "Saint-Martin", "Saint-Barthelemy", "Saint-Pierre-et-Miquelon",
      "Wallis-et-Futuna", "Polynesie francaise", "Nouvelle-Caledonie">>

\* the lines the user types, as lists of characters: the eleven valid
\* numbers, numbers out of range, negative numbers, padded and signed
\* numbers, a leading zero, digits grouped by an underscore, a decimal, a
\* word and the empty line
Inputs ==
    {<<"1">>, <<"2">>, <<"3">>, <<"4">>, <<"5">>, <<"6">>, <<"7">>, <<"8">>,
     <<"9">>, <<"1", "0">>, <<"1", "1">>, <<"1", "2">>, <<"0">>, <<"-", "1">>,
     <<"-", "1", "1">>, <<" ", "3", " ">>, <<"+", "4">>, <<"0", "7">>,
     <<"2", ".", "5">>, <<"a", "b", "c">>, <<"4", "2">>, <<"1", "_", "0">>,
     <<"_", "5">>, <<>>}

DigitValue ==
    ("0" :> 0) @@ ("1" :> 1) @@ ("2" :> 2) @@ ("3" :> 3) @@ ("4" :> 4) @@
    ("5" :> 5) @@ ("6" :> 6) @@ ("7" :> 7) @@ ("8" :> 8) @@ ("9" :> 9)

RECURSIVE StripLeft(_)
StripLeft(s) == IF s # <<>> /\ Head(s) = " " THEN StripLeft(Tail(s)) ELSE s

RECURSIVE StripRight(_)
StripRight(s) ==
    IF s # <<>> /\ s[Len(s)] = " " THEN StripRight(SubSeq(s, 1, Len(s) - 1)) ELSE s

\* the value of a list of decimal digits, most significant first
RECURSIVE DigitsValue(_)
DigitsValue(s) ==
    IF s = <<>> THEN 0
    ELSE 10 * DigitsValue(SubSeq(s, 1, Len(s) - 1)) + DigitValue[s[Len(s)]]

\* the characters of s that are not the digit separator
RECURSIVE WithoutUnderscores(_)
WithoutUnderscores(s) ==
    IF s = <<>> THEN <<>>
    ELSE IF Head(s) = "_" THEN WithoutUnderscores(Tail(s))
    ELSE <<Head(s)>> \o WithoutUnderscores(Tail(s))

\* Python's int(s) for a string: surrounding blanks are dropped, one sign is
\* allowed, and what remains must be one or more digits, single underscores
\* being allowed between digits; anything else raises ValueError
py_int(s) ==
    LET t == StripRight(StripLeft(s))
        signed == t # <<>> /\ Head(t) \in {"+", "-"}
        body == IF signed THEN Tail(t) ELSE t
        valid == /\ body # <<>>
                 /\ \A k \in DOMAIN body :
                        \/ body[k] \in DOMAIN DigitValue
                        \/ /\ body[k] = "_"
                           /\ 1 < k /\ k < Len(body)
                           /\ body[k - 1] \in DOMAIN DigitValue
                           /\ body[k + 1] \in DOMAIN DigitValue
    IN  IF ~valid THEN [ok |-> FALSE, value |-> 0]
        ELSE [ok |-> TRUE,
              value |-> IF signed /\ Head(t) = "-" THEN -DigitsValue(WithoutUnderscores(body))
                        ELSE DigitsValue(WithoutUnderscores(body))]

\* Python's list[i]: a negative index counts from the end, an index outside
\* the list raises IndexError
py_index(list, i) ==
    IF 0 <= i /\ i < Len(list) THEN list[i + 1]
    ELSE IF i < 0 /\ -i <= Len(list) THEN list[Len(list) + i + 1]
    ELSE "IndexError"

\* the try block of main without the test `choix < 1`
select_territoire_no_lower_bound(s) ==
    LET choix == py_int(s)
    IN  IF ~choix.ok THEN "La Reunion"
        ELSE IF choix.value > Len(territoires) THEN "La Reunion"
        ELSE IF py_index(territoires, choix.value - 1) = "IndexError" THEN "La Reunion"
        ELSE py_index(territoires, choix.value - 1)

\* the try/except block of main, lines 832-839: the value of
\* territoire_selectionne for the input line s
select_territoire(s) ==
    LET choix == py_int(s)
    IN  IF ~choix.ok THEN "La Reunion"
        ELSE IF choix.value < 1 \/ choix.value > Len(territoires) THEN "La Reunion"
        ELSE IF py_index(territoires, choix.value - 1) = "IndexError" THEN "La Reunion"
        ELSE py_index(territoires, choix.value - 1)

\* to_csv of the step-7 lists instead of the frame
to_csv_unadjusted(t) ==
    <<Columns, [i \in 1..Len(data["Annee"]) |-> [k \in 1..Len(Columns) |-> data[Columns[k]][i]]]>>

\* financial_data.to_csv(output_file, index=False): the header and one line
\* per row, the values in column order
to_csv(t) ==
    <<Columns, [i \in 1..Len(t["Annee"]) |-> [k \in 1..Len(Columns) |-> t[Columns[k]][i]]]>>

\* financial_data[[...five columns...]].head(): the first five rows
head(t) ==
    LET cols == <<"Annee", "Nombre_Allocataires", "Recettes_Totales",
                  "Depenses_Totales", "Solde_Compte">>
        n == IF Len(t["Annee"]) < 5 THEN Len(t["Annee"]) ELSE 5
    IN  [i \in 1..n |-> [k \in 1..Len(cols) |-> t[cols[k]][i]]]

\* the series the eight plots of create_financial_analysis draw; between
\* them the plots read every column of the frame and assign to none
plotted(t) == [c \in DOMAIN t |-> t[c]]

\* the tags of the recommendations section that are in the profile
recommendations(cfg) ==
    {tag \in {"precarite", "familles_nombreuses", "jeunesse", "isolement"} :
        InList(tag, cfg.specificites)}

\* Series.iloc[0] and Series.iloc[-1]
iloc_first(col) == col[1]
iloc_last(col) == col[Len(col)]

\* what _generate_financial_insights reads at fixed positions of the frame
\* and derives from the profile (its means are reductions of the same
\* columns and are only printed)
insights(t, cfg) ==
    [recettes_first |-> iloc_first(t["Recettes_Totales"]),
     recettes_last |-> iloc_last(t["Recettes_Totales"]),
     allocataires_first |-> iloc_first(t["Nombre_Allocataires"]),
     allocataires_last |-> iloc_last(t["Nombre_Allocataires"]),
     last_balance |-> iloc_last(t["Solde_Compte"]),
     specificites |-> cfg.specificites,
     recommendations |-> recommendations(cfg)]

\* the program starts in main, before any analyzer exists
MainInit ==
    /\ territoire = ""
    /\ start_year = 0
    /\ end_year = 0
    /\ config = <<>>
    /\ rng \in {r \in RngStates : r.pos = 0}
    /\ pc = "ready"
    /\ dates = <<>>
    /\ data = NoTable
    /\ df = NoTable
    /\ draws = <<>>
    /\ rng0 = <<>>
    /\ returned = <<>>
    /\ mpc = "input"
    /\ saisie = <<>>
    /\ territoire_selectionne = ""
    /\ csv = <<>>
    /\ preview = <<>>
    /\ figure = <<>>
    /\ report = <<>>
    /\ revenue_growth = <<>>
    /\ allocataires_growth = <<>>
    /\ growth_lines = <<>>

growthvars == <<revenue_growth, allocataires_growth, growth_lines>>

genvars == <<rng, pc, dates, data, df, draws, rng0, returned>>

\* lines 832-839: read a line and choose the territory
main_input ==
    /\ mpc = "input"
    /\ saisie' \in Inputs
    /\ territoire_selectionne' = select_territoire(saisie')
    /\ mpc' = "construct"
    /\ UNCHANGED <<territoire, start_year, end_year, config, genvars,
                   csv, preview, figure, report, growthvars>>

\* line 842: analyzer = CAF_DROMCOMAnalyzer(territoire_selectionne)
main_construct ==
    /\ mpc = "construct"
    /\ territoire' = territoire_selectionne
    /\ start_year' = 2002
    /\ end_year' = 2025
    /\ config' = _get_territoire_config(territoire')
    /\ mpc' = "generate"
    /\ UNCHANGED <<genvars, saisie, territoire_selectionne, csv, preview, figure, report, growthvars>>

\* lines 848-849, once generate_financial_data has returned
main_to_csv ==
    /\ mpc = "generate"
    /\ pc = "ready"
    /\ returned # <<>>
    /\ csv' = to_csv(returned[1])
    /\ mpc' = "head"
    /\ UNCHANGED <<territoire, start_year, end_year, config, genvars,
                   saisie, territoire_selectionne, preview, figure, report, growthvars>>

\* line 854
main_head ==
    /\ mpc = "head"
    /\ preview' = <<head(returned[1])>>
    /\ mpc' = "analysis"
    /\ UNCHANGED <<territoire, start_year, end_year, config, genvars,
                   saisie, territoire_selectionne, csv, figure, report, growthvars>>

\* line 858, create_financial_analysis up to plt.show()
create_financial_analysis ==
    /\ mpc = "analysis"
    /\ figure' = plotted(returned[1])
    /\ mpc' = "insights"
    /\ UNCHANGED <<territoire, start_year, end_year, config, genvars,
                   saisie, territoire_selectionne, csv, preview, report, growthvars>>

\* line 583, the call that ends create_financial_analysis
_generate_financial_insights ==
    /\ mpc = "insights"
    /\ report' = <<insights(returned[1], config)>>
    /\ mpc' = "done"
    /\ UNCHANGED <<territoire, start_year, end_year, config, genvars,
                   saisie, territoire_selectionne, csv, preview, figure, growthvars>>

NextMain ==
    \/ main_input
    \/ main_construct
    \/ generate_financial_data
    \/ sim_allocataires
    \/ sim_prestations
    \/ sim_total_revenue
    \/ sim_social_contributions
    \/ sim_state_contributions
    \/ sim_other_revenue
    \/ sim_total_expenses
    \/ sim_family_benefits
    \/ sim_housing_benefits
    \/ sim_solidarity_benefits
    \/ sim_management_costs
    \/ sim_coverage_rate
    \/ sim_management_ratio
    \/ sim_account_balance
    \/ sim_family_allocations
    \/ sim_ars
    \/ sim_apl
    \/ sim_rsa
    \/ sim_birth_grant
    \/ make_dataframe
    \/ add_caf_trends
    \/ return_df
    \/ main_to_csv
    \/ main_head
    \/ create_financial_analysis
    \/ _generate_financial_insights

SpecMain == MainInit /\ [][NextMain]_vars

----------------------------------------------------------------------------
(* Properties *)

\* the era pass of the current call has run (the locals of the last call are
\* kept until the next call starts)
PassDone == pc = "return" \/ (pc = "ready" /\ returned # <<>>)

\* the last table returned
LastReturned == returned[Len(returned)]

\* the rows of the era table: years, field, multiplier
EraRows ==
    << <<2002..2005, "Contributions_Etat", Dec(110, 100)>>,
       <<2002..2005, "Prestations_Familiales", Dec(115, 100)>>,
       <<2006..2010, "RSA", Dec(125, 100)>>,
       <<2006..2010, "Prestations_Solidarite", Dec(130, 100)>>,
       <<2008..2009, "Cotisations_Sociales", Dec(92, 100)>>,
       <<2008..2009, "RSA", Dec(115, 100)>>,
       <<2011..2015, "Contributions_Etat", Dec(112, 100)>>,
       <<2011..2015, "Allocations_Familiales", Dec(108, 100)>>,
       <<{2017}, "Contributions_Etat", Dec(118, 100)>>,
       <<{2017}, "RSA", Dec(110, 100)>>,
       <<{2020}, "Cotisations_Sociales", Dec(85, 100)>>,
       <<{2020}, "Contributions_Etat", Dec(125, 100)>>,
       <<{2020}, "RSA", Dec(135, 100)>>,
       <<{y \in Int : y >= 2022}, "Contributions_Etat", Dec(108, 100)>>,
       <<{y \in Int : y >= 2022}, "Prestations_Logement", Dec(112, 100)>>,
       <<{y \in Int : y >= 2022}, "ARS", Dec(110, 100)>> >>

\* the product of the multipliers of rows k..Len(EraRows) that apply to
\* (year, field)
RECURSIVE EraProductFrom(_, _, _)
EraProductFrom(k, year, f) ==
    IF k > Len(EraRows) THEN One
    ELSE IF f = EraRows[k][2] /\ year \in EraRows[k][1]
         THEN RMul(EraRows[k][3], EraProductFrom(k + 1, year, f))
         ELSE EraProductFrom(k + 1, year, f)

EraProduct(year, f) == EraProductFrom(1, year, f)

\* C1: once the era pass has run, every cell of every field holds its step-7
\* value times the product of the era-table rows whose years contain the
\* row's year; in 2016, 2018, 2019 and 2021 every cell is unchanged.
C1_EraTable ==
    PassDone =>
        \A f \in Fields : \A i \in 1..Len(dates) :
            /\ df[f][i] = RMul(data[f][i], EraProduct(dates[i], f))
            /\ dates[i] \in {2016, 2018, 2019, 2021} => df[f][i] = data[f][i]

\* a full-range pass over noisy data has run: a cell with two multipliers
\* (RSA in 2008) and an untouched year (2016) are both there
C1_Witness ==
    /\ pc = "return"
    /\ dates = date_range(2002, 2025)
    /\ rng0[Len(rng0)].seed = 1
    /\ territoire = "Guyane"
    /\ df["RSA"][7] = RMul(data["RSA"][7], Dec(23, 16))
    /\ df["RSA"][15] = data["RSA"][15]
    /\ df["Contributions_Etat"][24] # data["Contributions_Etat"][24]

\* the names of all twenty columns
ColumnNames == {Columns[k] : k \in 1..Len(Columns)}

\* C2: in a call of generate_financial_data the frame is untouched until all
\* nineteen fields are computed for all years, the era pass then starts from
\* the unadjusted values, and every cell of the returned table holds its
\* step-7 value times the single-pass multiplier, never times its square.
C2_SinglePass ==
    /\ pc \in Fields \cup {"DataFrame"} => df = NoTable
    /\ pc = "_add_caf_trends" =>
          /\ DOMAIN df = ColumnNames
          /\ \A c \in ColumnNames : Len(df[c]) = Len(dates)
          /\ df = data
    /\ (pc = "ready" /\ returned # <<>>) =>
          \A f \in Fields : \A i \in 1..Len(dates) :
              LET m == EraProduct(dates[i], f)
                  v == LastReturned[f][i]
              IN  /\ v = RMul(data[f][i], m)
                  /\ (m # One /\ data[f][i][1] # 0) => v # RMul(RMul(data[f][i], m), m)

\* a full-range table has been returned whose RSA cell of 2020 is adjusted
\* once
C2_Witness ==
    /\ pc = "ready"
    /\ Len(returned) = 1
    /\ dates = date_range(2002, 2025)
    /\ territoire = "La Reunion"
    /\ rng0[1].seed = 1
    /\ data["RSA"][19][1] # 0
    /\ LastReturned["RSA"][19] = RMul(data["RSA"][19], Dec(135, 100))

\* C3: the resolved profile is the preset's bundle for each of the eleven
\* preset names and the default bundle (50000, 200, three default tags) for
\* every other name; a bundle is always there.
C3_Resolve ==
    /\ DOMAIN config = {"allocataires_base", "budget_base", "specificites"}
    /\ territoire \in PresetNames => config = configs[territoire]
    /\ territoire \notin PresetNames =>
          config = [allocataires_base |-> 50000, budget_base |-> 200,
                    specificites |-> <<"prestations_familiales", "logement", "solidarite">>]
    /\ Cardinality(PresetNames) = 11
    /\ \A a, b \in PresetNames : a # b => configs[a] # configs[b]

\* a name that is not in the table has been resolved and a table generated
\* from the default bundle
C3_Witness ==
    /\ territoire = "Corse"
    /\ config.allocataires_base = 50000
    /\ config.budget_base = 200
    /\ returned # <<>>

\* the growth rate of the allocataire count, in thousandths
AllocatairesRate ==
    IF territoire \in {"Mayotte", "Guyane"} THEN 25
    ELSE IF territoire \in {"La Reunion", "Polynesie francaise"} THEN 18
    ELSE 12

\* C4: in every returned table the allocataire count at zero-based index i is
\* baseline_population x (1 + rate x i), whatever the noise stream and after
\* the era pass; for the default bundle over 2002-2003 it is 50000 and 50600.
C4_Allocataires ==
    \A n \in 1..Len(returned) :
        /\ \A k \in 1..Len(returned[n]["Nombre_Allocataires"]) :
              returned[n]["Nombre_Allocataires"][k] =
                  Dec(config.allocataires_base * (1000 + AllocatairesRate * (k - 1)), 1000)
        /\ (territoire \notin PresetNames /\ start_year = 2002 /\ end_year = 2003) =>
              returned[n]["Nombre_Allocataires"] = <<RInt(50000), RInt(50600)>>

\* two tables of the default bundle over 2002-2003 drawn from different
\* generator states: the noisy series differ, the allocataire counts do not
C4_Witness ==
    /\ Len(returned) = 2
    /\ territoire = "Corse"
    /\ start_year = 2002 /\ end_year = 2003
    /\ returned[1]["Prestations_Versees"] # returned[2]["Prestations_Versees"]
    /\ returned[2]["Nombre_Allocataires"] = <<RInt(50000), RInt(50600)>>

\* every deviate of the stream from state r on is 0: every noise factor is 1.0
NoiseFixedAtOne(r) ==
    \A k \in 0..(RngPeriod - 1) : standard_normal(rng_after(r, k)) = 0

IndexRows ==
    << <<"Prestations_Versees", 85, "", 10>>,
       <<"Recettes_Totales", 100, "", 10>>,
       <<"Cotisations_Sociales", 65, "", 10>>,
       <<"Autres_Recettes", 5, "", 10>>,
       <<"Depenses_Totales", 95, "", 10>>,
       <<"Prestations_Familiales", 45, "familles_nombreuses", 14>>,
       <<"Prestations_Logement", 25, "", 10>>,
       <<"Prestations_Solidarite", 20, "precarite", 15>>,
       <<"Frais_Gestion", 5, "", 10>>,
       <<"Allocations_Familiales", 25, "familles_nombreuses", 14>>,
       <<"ARS", 8, "jeunesse", 13>>,
       <<"APL", 20, "", 10>>,
       <<"RSA", 15, "precarite", 16>>,
       <<"Prime_Naissance", 4, "jeunesse", 15>> >>

\* base x tag_multiplier of row r of IndexRows for the resolved profile
BaseTimesTag(r) ==
    LET tagged == \E k \in DOMAIN config.specificites : config.specificites[k] = r[3]
    IN  Dec(config.budget_base * r[2] * (IF tagged THEN r[4] ELSE 10), 1000)

\* C6 as stated: with noise fixed at 1.0 the start-year value of every
\* index-growth field in the returned table is base x tag_multiplier.
C6_Original ==
    \A n \in 1..Len(returned) :
        (NoiseFixedAtOne(rng0[n]) /\ Len(returned[n]["Annee"]) >= 1) =>
            /\ returned[n]["Nombre_Allocataires"][1] = RInt(config.allocataires_base)
            /\ \A j \in DOMAIN IndexRows :
                  returned[n][IndexRows[j][1]][1] = BaseTimesTag(IndexRows[j])

\* C6 amended: with noise fixed at 1.0 the step-7 value of every index-growth
\* field at the start year is base x tag_multiplier, and its value in the
\* returned table is base x tag_multiplier x the era multiplier of the start
\* year for that field.
C6_StartValue ==
    /\ (pc # "ready" /\ NoiseFixedAtOne(rng0[Len(rng0)]) /\ Len(dates) >= 1) =>
          \A j \in DOMAIN IndexRows :
              IndexRows[j][1] \in DOMAIN data =>
                  data[IndexRows[j][1]][1] = BaseTimesTag(IndexRows[j])
    /\ \A n \in 1..Len(returned) :
          (NoiseFixedAtOne(rng0[n]) /\ Len(returned[n]["Annee"]) >= 1) =>
              /\ returned[n]["Nombre_Allocataires"][1] = RInt(config.allocataires_base)
              /\ \A j \in DOMAIN IndexRows :
                    returned[n][IndexRows[j][1]][1] =
                        RMul(BaseTimesTag(IndexRows[j]),
                             EraProduct(start_year, IndexRows[j][1]))

\* a table with every noise factor 1.0 has been returned whose start-year
\* Prestations_Familiales cell carries the tag multiplier and the 2002-2005
\* era multiplier
C6_Witness ==
    /\ Len(returned) >= 1
    /\ NoiseFixedAtOne(rng0[1])
    /\ territoire = "Guadeloupe"
    /\ start_year = 2002
    /\ returned[1]["Prestations_Familiales"][1] =
           RMul(RMul(RMul(RInt(450), Dec(45, 100)), Dec(14, 10)), Dec(115, 100))
    /\ returned[1]["Autres_Recettes"][1] = RMul(RInt(450), Dec(5, 100))

\* C7: once the era pass has run, every cell whose noise factor is positive
\* (and every cell of the noise-free allocataire count) is strictly positive;
\* hence the whole table is positive when every noise factor is positive.
C7_Positive ==
    PassDone =>
        \A f \in Fields : \A i \in 1..Len(dates) :
            (f \in DOMAIN draws => RPos(draws[f][i])) => RPos(df[f][i])

\* a full-range noisy table is through the era pass: the management ratio of
\* 2025 is positive and below its 2009 level per unit of noise, and a cell
\* with a non-positive noise factor is not positive
C7_Witness ==
    /\ pc = "return"
    /\ Len(dates) = 24
    /\ rng0[Len(rng0)].seed = 1
    /\ RPos(draws["Ratio_Gestion"][24])
    /\ RPos(df["Ratio_Gestion"][24])
    /\ ratio_improvement(2025) # One
    /\ \E i \in 1..24 : ~RPos(draws["Solde_Compte"][i]) /\ ~RPos(df["Solde_Compte"][i])

GatedFields == {"Contributions_Etat", "Taux_Couverture", "Ratio_Gestion", "Solde_Compte"}

\* C8: the year-gated factor of each of the four threshold-gated fields is 1
\* for every year before 2010, so within a series any two years before 2010
\* have the same value per unit of noise.
C8_FlatBefore2010 ==
    /\ \A y \in 2002..2009 :
          /\ state_increase(y) = One
          /\ coverage_improvement(y) = One
          /\ ratio_improvement(y) = One
          /\ balance_improvement(y) = One
    /\ \A f \in GatedFields \cap DOMAIN draws :
          \A i, j \in 1..Len(dates) :
              (dates[i] < 2010 /\ dates[j] < 2010) =>
                  RMul(data[f][i], draws[f][j]) = RMul(data[f][j], draws[f][i])

\* the four gated series of a full-range noisy table are computed: the
\* state contributions of 2002 and 2009 agree per unit of noise, those of
\* 2002 and 2013 do not
C8_Witness ==
    /\ pc = "DataFrame"
    /\ territoire = "Mayotte"
    /\ Len(dates) = 24
    /\ rng0[Len(rng0)].seed = 1
    /\ draws["Contributions_Etat"][1] # draws["Contributions_Etat"][8]
    /\ RMul(data["Contributions_Etat"][1], draws["Contributions_Etat"][8])
           = RMul(data["Contributions_Etat"][8], draws["Contributions_Etat"][1])
    /\ RMul(data["Contributions_Etat"][1], draws["Contributions_Etat"][12])
           # RMul(data["Contributions_Etat"][12], draws["Contributions_Etat"][1])

\* the number of years of the inclusive range
NumYears == IF end_year >= start_year THEN end_year - start_year + 1 ELSE 0

\* C9: every returned table has the twenty columns Annee and the nineteen
\* fields, each with one value per year of [start_year, end_year]; Annee
\* lists the years in increasing order without gap or repeat; for 2002..2025
\* that is 24 rows.
C9_OneRowPerYear ==
    \A n \in 1..Len(returned) :
        /\ DOMAIN returned[n] = ColumnNames
        /\ Cardinality(Fields) = 19
        /\ \A c \in ColumnNames : DOMAIN returned[n][c] = 1..NumYears
        /\ \A k \in 1..NumYears : returned[n]["Annee"][k] = start_year + k - 1
        /\ \A k \in 1..(NumYears - 1) : returned[n]["Annee"][k] < returned[n]["Annee"][k + 1]
        /\ (start_year = 2002 /\ end_year = 2025) =>
              /\ Len(returned[n]["Annee"]) = 24
              /\ returned[n]["Annee"][1] = 2002
              /\ returned[n]["Annee"][24] = 2025

\* a table for 2002..2025 has been returned
C9_Witness ==
    /\ Len(returned) = 1
    /\ start_year = 2002 /\ end_year = 2025
    /\ Len(returned[1]["RSA"]) = 24
    /\ returned[1]["Annee"][24] = 2025

\* C10: with start_year > end_year the call returns a table of the twenty
\* columns with no row, and the era pass leaves the frame as it was.
C10_EmptyRange ==
    start_year > end_year =>
        /\ \A n \in 1..Len(returned) :
              /\ DOMAIN returned[n] = ColumnNames
              /\ \A c \in ColumnNames : returned[n][c] = <<>>
        /\ PassDone => df = data

\* a call with the range 2005..2002 has returned
C10_Witness ==
    /\ start_year = 2005 /\ end_year = 2002
    /\ pc = "ready"
    /\ Len(returned) = 1
    /\ returned[1]["Annee"] = <<>>

----------------------------------------------------------------------------
(* C11 *)

\* the decimal numeral of k, for 1 <= k <= 11
Numeral(k) ==
    LET digit == <<"0", "1", "2", "3", "4", "5", "6", "7", "8", "9">>
    IN  IF k < 10 THEN <<digit[k + 1]>> ELSE <<"1", digit[k - 10 + 1]>>

\* the input lines of Inputs that spell a number from 1 to 11 otherwise than
\* by its numeral, with the number they spell
SpelledOtherwise ==
    (<<" ", "3", " ">> :> 3) @@ (<<"+", "4">> :> 4) @@ (<<"0", "7">> :> 7) @@
    (<<"1", "_", "0">> :> 10)

----------------------------------------------------------------------------
(* C12 *)

\* the position of column c in the exported file
ColumnIndex(c) == CHOOSE k \in 1..Len(Columns) : Columns[k] = c

\* main has gone past generate_financial_data
AfterGenerate == mpc \in {"head", "analysis", "insights", "done"}

\* C12: once generate_financial_data has returned, no cell of the table
\* changes any more; in main the export, the preview, the plots and the
\* summary are produced only after the era pass has completed and the table
\* has been returned, and every value they hold is the era-adjusted value of
\* the table: the step-7 value times the era multiplier of its year.
C12_Frozen ==
    /\ [][returned # <<>> => (returned' = returned /\ df' = df /\ data' = data)]_vars
    /\ []((csv # <<>> \/ preview # <<>> \/ figure # <<>> \/ report # <<>>) =>
            (AfterGenerate /\ pc = "ready" /\ Len(returned) = 1))
    /\ [](AfterGenerate =>
            /\ returned[1] = df
            /\ Len(csv[2]) = Len(dates)
            /\ \A i \in 1..Len(dates) :
                  /\ csv[2][i][ColumnIndex("Annee")] = dates[i]
                  /\ \A f \in Fields :
                        /\ csv[2][i][ColumnIndex(f)] = returned[1][f][i]
                        /\ csv[2][i][ColumnIndex(f)] = RMul(data[f][i], EraProduct(dates[i], f)))
    /\ [](mpc \in {"insights", "done"} =>
            \A c \in ColumnNames : \A i \in 1..Len(dates) :
                figure[c][i] = csv[2][i][ColumnIndex(c)])
    /\ [](mpc = "done" =>
            /\ report[1].recettes_first = csv[2][1][ColumnIndex("Recettes_Totales")]
            /\ report[1].recettes_last = csv[2][Len(dates)][ColumnIndex("Recettes_Totales")]
            /\ report[1].allocataires_first = csv[2][1][ColumnIndex("Nombre_Allocataires")]
            /\ report[1].allocataires_last = csv[2][Len(dates)][ColumnIndex("Nombre_Allocataires")]
            /\ report[1].last_balance = csv[2][Len(dates)][ColumnIndex("Solde_Compte")])

\* main has run to its end on noisy data: the file, the plots and the
\* summary exist, and the exported RSA cell of 2020 is the adjusted one
C12_Witness ==
    /\ mpc = "done"
    /\ report # <<>>
    /\ rng0[1].seed = 1
    /\ csv[2][19][ColumnIndex("RSA")] = RMul(data["RSA"][19], Dec(135, 100))
    /\ csv[2][19][ColumnIndex("RSA")] # data["RSA"][19]
    /\ figure["RSA"][19] = csv[2][19][ColumnIndex("RSA")]

----------------------------------------------------------------------------
(* The growth percentages of _generate_financial_insights, in binary64 *)

\* the significand of a Python float has 53 bits
FloatBits == 53

\* Natural numbers of any size are sequences of bits, most significant first.
Zeros(n) == [i \in 1..n |-> 0]

Front(b) == SubSeq(b, 1, Len(b) - 1)

StripZeros(b) ==
    IF \A k \in DOMAIN b : b[k] = 0 THEN <<>>
    ELSE LET first == CHOOSE k \in DOMAIN b : b[k] = 1 /\ \A j \in 1..(k - 1) : b[j] = 0
         IN  SubSeq(b, first, Len(b))

PadLeft(b, n) == IF Len(b) < n THEN Zeros(n - Len(b)) \o b ELSE b

RECURSIVE NatBits(_)
NatBits(n) == IF n = 0 THEN <<>> ELSE Append(NatBits(n \div 2), n % 2)

RECURSIVE BitsNat(_)
BitsNat(b) == IF b = <<>> THEN 0 ELSE 2 * BitsNat(Front(b)) + b[Len(b)]

\* the sum of two bit sequences of one length and a carry; the low half is
\* evaluated first (the test on lo.c), then the high half with its carry
RECURSIVE AddCarry(_, _, _)
AddCarry(a, b, c) ==
    IF Len(a) = 0 THEN [s |-> <<>>, c |-> c]
    ELSE IF Len(a) = 1
    THEN [s |-> <<(a[1] + b[1] + c) % 2>>, c |-> (a[1] + b[1] + c) \div 2]
    ELSE LET h == Len(a) \div 2
             lo == AddCarry(SubSeq(a, h + 1, Len(a)), SubSeq(b, h + 1, Len(b)), c)
             hi == AddCarry(SubSeq(a, 1, h), SubSeq(b, 1, h), lo.c)
         IN  IF lo.c = 0 THEN [s |-> hi.s \o lo.s, c |-> hi.c]
             ELSE [s |-> hi.s \o lo.s, c |-> hi.c]

BAdd(a, b) ==
    LET n == IF Len(a) < Len(b) THEN Len(b) ELSE Len(a)
        r == AddCarry(PadLeft(a, n), PadLeft(b, n), 0)
    IN  IF r.c = 1 THEN <<1>> \o r.s ELSE r.s

RECURSIVE SubBorrow(_, _, _)
SubBorrow(a, b, c) ==
    IF Len(a) = 0 THEN [s |-> <<>>, c |-> c]
    ELSE IF Len(a) = 1
    THEN [s |-> <<(a[1] - b[1] - c + 2) % 2>>, c |-> IF a[1] - b[1] - c < 0 THEN 1 ELSE 0]
    ELSE LET h == Len(a) \div 2
             lo == SubBorrow(SubSeq(a, h + 1, Len(a)), SubSeq(b, h + 1, Len(b)), c)
             hi == SubBorrow(SubSeq(a, 1, h), SubSeq(b, 1, h), lo.c)
         IN  IF lo.c = 0 THEN [s |-> hi.s \o lo.s, c |-> hi.c]
             ELSE [s |-> hi.s \o lo.s, c |-> hi.c]

\* a - b, for a >= b
BSub(a, b) ==
    LET n == IF Len(a) < Len(b) THEN Len(b) ELSE Len(a)
    IN  SubBorrow(PadLeft(a, n), PadLeft(b, n), 0).s

BLess(a, b) ==
    LET x == StripZeros(a)
        y == StripZeros(b)
    IN  IF Len(x) # Len(y) THEN Len(x) < Len(y)
        ELSE \E k \in 1..Len(x) : x[k] < y[k] /\ \A j \in 1..(k - 1) : x[j] = y[j]

RECURSIVE BMul(_, _)
BMul(a, b) ==
    IF b = <<>> THEN <<>>
    ELSE BAdd(BMul(a, Front(b)) \o <<0>>, IF b[Len(b)] = 1 THEN a ELSE <<>>)

\* long division of the bits, entered with remainder r, by the small number
\* d: the quotient bits and the remainder left; the left half is evaluated
\* first (the test on left.r), then the right half with its remainder
RECURSIVE LongDiv(_, _, _)
LongDiv(bits, d, r) ==
    IF Len(bits) = 0 THEN [q |-> <<>>, r |-> r]
    ELSE IF Len(bits) = 1
    THEN [q |-> <<IF 2 * r + bits[1] >= d THEN 1 ELSE 0>>,
          r |-> IF 2 * r + bits[1] >= d THEN 2 * r + bits[1] - d ELSE 2 * r + bits[1]]
    ELSE LET h == Len(bits) \div 2
             left == LongDiv(SubSeq(bits, 1, h), d, r)
             right == LongDiv(SubSeq(bits, h + 1, Len(bits)), d, left.r)
         IN  IF left.r = 0 THEN [q |-> left.q \o right.q, r |-> right.r]
             ELSE [q |-> left.q \o right.q, r |-> right.r]

\* A float is a sign, a significand m of FloatBits bits whose first bit is 1
\* and an exponent e, and stands for m * 2^e; zero has the empty significand.
\* round_float rounds bits * 2^e, plus a nonzero amount below the last bit
\* if sticky, to the nearest float, ties to the even significand. Exponents
\* stay far inside the binary64 range for the values of the summary.
round_float(neg, bits, e, sticky) ==
    LET s == StripZeros(bits)
        n == Len(s)
    IN  IF n = 0 THEN [neg |-> neg, m |-> <<>>, e |-> 0]
        ELSE IF n <= FloatBits
        THEN [neg |-> neg, m |-> s \o Zeros(FloatBits - n), e |-> e - (FloatBits - n)]
        ELSE LET keep == SubSeq(s, 1, FloatBits)
                 rest == sticky \/ \E k \in (FloatBits + 2)..n : s[k] = 1
                 up == s[FloatBits + 1] = 1 /\ (rest \/ keep[FloatBits] = 1)
                 r == IF up THEN BAdd(keep, <<1>>) ELSE keep
             IN  IF Len(r) > FloatBits
                 THEN [neg |-> neg, m |-> SubSeq(r, 1, FloatBits), e |-> e + (n - FloatBits) + 1]
                 ELSE [neg |-> neg, m |-> r, e |-> e + (n - FloatBits)]

\* the float of a whole number
float(n) == round_float(FALSE, NatBits(n), 0, FALSE)

\* a / b for two cells holding whole numbers, b > 0: the quotient is
\* developed to more than FloatBits + 1 bits and rounded once
truediv(a, b) ==
    LET k == FloatBits + 11
        dividend == NatBits(a[1]) \o Zeros(k)
        d == LongDiv(dividend, b[1], 0)
    IN  round_float(FALSE, d.q, -k, d.r # 0)

\* x - 1 for a float x >= 0: the exact difference, rounded
float_sub_one(x) ==
    LET e == IF x.e < 0 THEN x.e ELSE 0
        xm == x.m \o Zeros(x.e - e)
        one == <<1>> \o Zeros(-e)
    IN  IF BLess(xm, one) THEN round_float(TRUE, BSub(one, xm), e, FALSE)
        ELSE round_float(FALSE, BSub(xm, one), e, FALSE)

\* x * n for a float x and a whole number n: the exact product, rounded
float_mul(x, n) == round_float(x.neg, BMul(x.m, NatBits(n)), x.e, FALSE)

\* format(x, ".1f"): the sign and the number of tenths printed, the exact
\* value of x rounded to the nearest tenth, ties to the even digit
format_1f(x) ==
    LET k == IF x.e < 0 THEN -x.e ELSE 0
        n == BMul(x.m, NatBits(10)) \o Zeros(IF x.e > 0 THEN x.e ELSE 0)
        padded == PadLeft(n, k + 1)
        ip == SubSeq(padded, 1, Len(padded) - k)
        fr == SubSeq(padded, Len(padded) - k + 1, Len(padded))
        up == /\ k > 0
              /\ fr[1] = 1
              /\ ((\E j \in 2..k : fr[j] = 1) \/ ip[Len(ip)] = 1)
    IN  [neg |-> x.neg, tenths |-> BitsNat(ip) + (IF up THEN 1 ELSE 0)]

\* the expression of lines 755-758 with the first and the last row exchanged
growth_of_swapped(col) ==
    float_mul(float_sub_one(truediv(iloc_first(col), iloc_last(col))), 100)

\* ((col.iloc[-1] / col.iloc[0]) - 1) * 100
growth_of(col) ==
    float_mul(float_sub_one(truediv(iloc_last(col), iloc_first(col))), 100)

\* the tables handed to _generate_financial_insights: two or three years of
\* whole positive numbers in the two columns the growth section reads
GrowthTables ==
    {[Annee |-> [i \in 1..n |-> 2001 + i],
      Recettes_Totales |-> [i \in 1..n |-> RInt(IF i = 1 THEN rf ELSE IF i = n THEN rl ELSE 7)],
      Nombre_Allocataires |-> [i \in 1..n |-> RInt(IF i = 1 THEN af ELSE IF i = n THEN al ELSE 7)]] :
        n \in 2..3, rf \in {100, 110, 3, 8}, rl \in {110, 100, 200, 4, 1},
        af \in {50, 3, 1000}, al \in {55, 1, 1000}}

GrowthInit ==
    /\ territoire = "La Reunion"
    /\ df \in GrowthTables
    /\ start_year = 2002
    /\ end_year = 2001 + Len(df["Annee"])
    /\ config = _get_territoire_config(territoire)
    /\ rng = [seed |-> 0, pos |-> 0]
    /\ pc = "ready"
    /\ dates = <<>>
    /\ data = NoTable
    /\ draws = <<>>
    /\ rng0 = <<>>
    /\ returned = <<>>
    /\ mpc = "revenue_growth"
    /\ saisie = <<>>
    /\ territoire_selectionne = ""
    /\ csv = <<>>
    /\ preview = <<>>
    /\ figure = <<>>
    /\ report = <<>>
    /\ revenue_growth = <<>>
    /\ allocataires_growth = <<>>
    /\ growth_lines = <<>>

framevars == <<territoire, start_year, end_year, config, genvars,
               saisie, territoire_selectionne, csv, preview, figure, report>>

\* lines 755-756
assign_revenue_growth ==
    /\ mpc = "revenue_growth"
    /\ revenue_growth' = <<growth_of(df["Recettes_Totales"])>>
    /\ mpc' = "allocataires_growth"
    /\ UNCHANGED <<framevars, allocataires_growth, growth_lines>>

\* lines 757-758
assign_allocataires_growth ==
    /\ mpc = "allocataires_growth"
    /\ allocataires_growth' = <<growth_of(df["Nombre_Allocataires"])>>
    /\ mpc' = "print_growth"
    /\ UNCHANGED <<framevars, revenue_growth, growth_lines>>

\* lines 760-761
print_growth ==
    /\ mpc = "print_growth"
    /\ growth_lines' = <<format_1f(revenue_growth[1]), format_1f(allocataires_growth[1])>>
    /\ mpc' = "done"
    /\ UNCHANGED <<framevars, revenue_growth, allocataires_growth>>

NextGrowth ==
    \/ assign_revenue_growth
    \/ assign_allocataires_growth
    \/ print_growth

SpecGrowth == GrowthInit /\ [][NextGrowth]_vars

----------------------------------------------------------------------------
(* C13 *)

\* the two-year table of the scenario: total revenue 100, then 110
ScenarioSeries == <<RInt(100), RInt(110)>>

\* the exact value of (last / first - 1) * 100 for a series of whole
\* numbers, in tenths: the whole tenths and what is left over first
ExactTenths(col) ==
    LET f == iloc_first(col)[1]
        l == iloc_last(col)[1]
        n == 1000 * Abs(l - f)
    IN  [neg |-> l < f, whole |-> n \div f, twice_rest |-> 2 * (n % f), first |-> f]

\* the float 10 + 5 * 2^-49, which Python writes 10.000000000000009
TenAndFiveUlps ==
    [neg |-> FALSE, m |-> <<1, 0, 1, 0>> \o Zeros(FloatBits - 7) \o <<1, 0, 1>>, e |-> 4 - FloatBits]

\* C13 as stated: the growth percentage computed for the total revenue
\* series [100, 110] is exactly 10.
C13_Original ==
    (revenue_growth # <<>> /\ df["Recettes_Totales"] = ScenarioSeries) =>
        revenue_growth[1] = float(10)

\* C13, amended: the growth percentage of total revenue and of the
\* allocataire count is (last / first - 1) * 100 over the first and last row
\* of the table, each of the three operations rounded to a float, and is
\* printed with one decimal: the printed figure is the exact percentage
\* rounded to a tenth (whenever the exact percentage is not halfway between
\* two tenths); for the revenue series [100, 110] the float is
\* 10 + 5 * 2^-49, not 10, and the printed figure is 10.0.
C13_Growth ==
    /\ revenue_growth # <<>> =>
          /\ revenue_growth[1] =
                float_mul(float_sub_one(truediv(df["Recettes_Totales"][Len(df["Annee"])],
                                                df["Recettes_Totales"][1])), 100)
          /\ df["Recettes_Totales"] = ScenarioSeries =>
                (revenue_growth[1] = TenAndFiveUlps /\ revenue_growth[1] # float(10))
    /\ allocataires_growth # <<>> =>
          allocataires_growth[1] =
              float_mul(float_sub_one(truediv(df["Nombre_Allocataires"][Len(df["Annee"])],
                                              df["Nombre_Allocataires"][1])), 100)
    /\ growth_lines # <<>> =>
          /\ \A k \in 1..2 :
                LET x == ExactTenths(df[<<"Recettes_Totales", "Nombre_Allocataires">>[k]])
                IN  /\ x.twice_rest < x.first =>
                          growth_lines[k].tenths = x.whole
                    /\ x.twice_rest > x.first =>
                          growth_lines[k].tenths = x.whole + 1
                    /\ x.whole > 0 => growth_lines[k].neg = x.neg
          /\ df["Recettes_Totales"] = ScenarioSeries =>
                growth_lines[1] = [neg |-> FALSE, tenths |-> 100]

\* the summary of the scenario table has been printed: the revenue growth
\* shown is 10.0 and the float behind it is not 10
C13_Witness ==
    /\ mpc = "done"
    /\ df["Recettes_Totales"] = ScenarioSeries
    /\ growth_lines # <<>>
    /\ growth_lines[1].tenths = 100
    /\ revenue_growth[1] # float(10)
    /\ allocataires_growth[1].neg

----------------------------------------------------------------------------
(* C14 *)

\* the rows of the returned frame whose year is in `years`
RowsOf(years) == {i \in 1..Len(dates) : dates[i] \in years}

\* the multipliers that the branches other than the exact-2020 branch apply
\* to field f, in any year
OtherBranchMultipliers(f) ==
    {EraRows[k][3] : k \in {j \in 1..Len(EraRows) : EraRows[j][2] = f /\ 2020 \notin EraRows[j][1]}}

\* the (field, multiplier) pairs of the exact-2020 branch, the only rows of
\* the era table whose years contain 2020
Branch2020 ==
    {<<EraRows[k][2], EraRows[k][3]>> : k \in {j \in 1..Len(EraRows) : 2020 \in EraRows[j][1]}}

\* no cell of 2011-2015 holds a multiplier of the 2002-2005, 2006-2010 or
\* 2008-2009 branch, no cell of 2002-2010 holds a 2011-2015 multiplier, and
\* the RSA cells of 2008 and 2009 hold the product of the 2006-2010 and the
\* 2008-2009 multiplier
ExclusiveAndCrisisOverlap ==
    /\ \A i \in RowsOf(2011..2015) : \A f \in Fields :
          df[f][i] = RMul(data[f][i],
                          IF f = "Contributions_Etat" THEN Dec(112, 100)
                          ELSE IF f = "Allocations_Familiales" THEN Dec(108, 100)
                          ELSE One)
    /\ \A i \in RowsOf(2002..2010) :
          /\ df["Allocations_Familiales"][i] = data["Allocations_Familiales"][i]
          /\ df["Contributions_Etat"][i] =
                RMul(data["Contributions_Etat"][i],
                     IF dates[i] <= 2005 THEN Dec(11, 10) ELSE One)
    /\ \A i \in RowsOf(2008..2009) :
          df["RSA"][i] = RMul(RMul(data["RSA"][i], Dec(125, 100)), Dec(115, 100))

\* C14 as stated: the 2011-2015 branch excludes the earlier branches, the
\* 2008-2009 branch overlaps with another branch, and so does the exact-2020
\* branch: some cell of 2020 holds the product of a 2020 multiplier and a
\* multiplier of another branch.
C14_Original ==
    (PassDone /\ \A f \in Fields : \A i \in 1..Len(dates) : data[f][i][1] # 0) =>
        /\ ExclusiveAndCrisisOverlap
        /\ RowsOf({2020}) # {} =>
              \E i \in RowsOf({2020}) : \E b \in Branch2020 :
                  \E m \in OtherBranchMultipliers(b[1]) :
                      df[b[1]][i] = RMul(RMul(data[b[1]][i], b[2]), m)

\* C14, amended: the 2011-2015 branch excludes the earlier branches and the
\* 2008-2009 branch overlaps with the 2006-2010 branch (RSA of 2008 and 2009
\* holds 1.25 x 1.15), but the exact-2020 branch overlaps with no branch
\* that multiplies: in 2020 Cotisations_Sociales, Contributions_Etat and RSA
\* hold the single multipliers 0.85, 1.25 and 1.35 and every other field is
\* unchanged.
C14_Branches ==
    PassDone =>
        /\ ExclusiveAndCrisisOverlap
        /\ \A i \in RowsOf({2020}) : \A f \in Fields :
              /\ df[f][i] = RMul(data[f][i],
                                 IF f = "Cotisations_Sociales" THEN Dec(85, 100)
                                 ELSE IF f = "Contributions_Etat" THEN Dec(125, 100)
                                 ELSE IF f = "RSA" THEN Dec(135, 100)
                                 ELSE One)
              /\ (data[f][i][1] # 0 /\ <<f, EraProduct(2020, f)>> \in Branch2020) =>
                    \A m \in OtherBranchMultipliers(f) :
                        df[f][i] # RMul(RMul(data[f][i], EraProduct(2020, f)), m)

\* a full-range pass over nonzero data has run: RSA of 2008 holds the
\* product 1.25 x 1.15, RSA of 2020 holds 1.35 alone, and Contributions_Etat
\* of 2013 holds 1.12 alone
C14_Witness ==
    /\ pc = "return"
    /\ dates = date_range(2002, 2025)
    /\ \A f \in Fields : \A i \in 1..Len(dates) : data[f][i][1] # 0
    /\ df["RSA"][7] = RMul(data["RSA"][7], Dec(23, 16))
    /\ df["RSA"][19] = RMul(data["RSA"][19], Dec(135, 100))
    /\ df["Contributions_Etat"][12] = RMul(data["Contributions_Etat"][12], Dec(112, 100))

----------------------------------------------------------------------------
(* C15 *)

\* 1: very_high, 2: high, 3: moderate, by the two lists of the growth tests
TierOf(t) ==
    IF t \in {"Mayotte", "Guyane"} THEN 1
    ELSE IF t \in {"La Reunion", "Polynesie francaise"} THEN 2
    ELSE 3

\* the per-year rates, in thousandths, that the three tiers use for each
\* field
RateTable ==
    [Nombre_Allocataires |-> <<25, 18, 12>>,
     Prestations_Versees |-> <<28, 22, 18>>,
     Recettes_Totales |-> <<42, 35, 28>>,
     Cotisations_Sociales |-> <<35, 28, 22>>,
     Contributions_Etat |-> <<22, 18, 15>>,
     Autres_Recettes |-> <<25, 25, 25>>,
     Depenses_Totales |-> <<38, 32, 26>>,
     Prestations_Familiales |-> <<32, 28, 22>>,
     Prestations_Logement |-> <<35, 30, 24>>,
     Prestations_Solidarite |-> <<40, 35, 28>>,
     Frais_Gestion |-> <<20, 20, 20>>,
     Taux_Couverture |-> <<5, 5, 5>>,
     Ratio_Gestion |-> <<-3, -3, -3>>,
     Solde_Compte |-> <<10, 10, 10>>,
     Allocations_Familiales |-> <<30, 25, 20>>,
     ARS |-> <<32, 28, 22>>,
     APL |-> <<36, 32, 26>>,
     RSA |-> <<42, 38, 30>>,
     Prime_Naissance |-> <<26, 22, 18>>]

\* the fields whose rate is the same constant for every territory
SingleRateFields ==
    {"Autres_Recettes", "Frais_Gestion", "Taux_Couverture", "Ratio_Gestion", "Solde_Compte"}

\* the number of years of growth behind row i of field f: the index of the
\* row, or the years since 2010 for the year-gated fields
GrowthYears(f, i) ==
    IF f \in GatedFields THEN (IF dates[i] >= 2010 THEN dates[i] - 2010 ELSE 0)
    ELSE i - 1

\* the noise factor drawn for row i of field f (none for the allocataires)
DrawOf(f, i) == IF f \in DOMAIN draws THEN draws[f][i] ELSE One

\* the computed series of field f grows, per unit of noise, by r thousandths
\* per year of growth: every row divided by 1 + r x its years of growth
\* gives the same value per unit of noise as the next row
Follows(f, r) ==
    \A i \in 1..(Len(dates) - 1) :
        RMul(RMul(data[f][i + 1], Dec(1000, 1000 + r * GrowthYears(f, i + 1))), DrawOf(f, i)) =
        RMul(RMul(data[f][i], Dec(1000, 1000 + r * GrowthYears(f, i))), DrawOf(f, i + 1))

\* two consecutive rows of field f differ in their years of growth and are
\* not zero, so that the series shows its rate
Telling(f) ==
    \E i \in 1..(Len(dates) - 1) :
        /\ GrowthYears(f, i) # GrowthYears(f, i + 1)
        /\ data[f][i][1] # 0
        /\ data[f][i + 1][1] # 0

\* C15 as stated: once the nineteen series are computed, every field grows at the rate of the territory's tier, and
\* for every field the rates of the other two tiers are different rates: a
\* series that shows its rate does not follow the rate of another tier.
C15_Original ==
    pc = "DataFrame" => \A f \in Fields :
        /\ Follows(f, RateTable[f][TierOf(territoire)])
        /\ Telling(f) =>
              \A u \in (1..3) \ {TierOf(territoire)} : ~Follows(f, RateTable[f][u])

\* C15, amended: once the nineteen series are computed, every field grows
\* at the rate of the territory's tier; for the fourteen fields that test
\* the territory for their rate the three rates are pairwise
\* distinct and a series that shows its rate follows the rate of no other
\* tier; Autres_Recettes, Frais_Gestion, Taux_Couverture, Ratio_Gestion and
\* Solde_Compte grow at one rate (0.025, 0.02, 0.005, -0.003, 0.01) that all
\* three tiers share.
C15_Rates ==
    pc = "DataFrame" => \A f \in Fields :
        /\ Follows(f, RateTable[f][TierOf(territoire)])
        /\ f \notin SingleRateFields =>
              /\ RateTable[f][1] > RateTable[f][2]
              /\ RateTable[f][2] > RateTable[f][3]
              /\ Telling(f) =>
                    \A u \in (1..3) \ {TierOf(territoire)} : ~Follows(f, RateTable[f][u])
        /\ f \in SingleRateFields =>
              \A u \in 1..3 :
                  /\ RateTable[f][u] = RateTable[f][1]
                  /\ Follows(f, RateTable[f][u])

\* all nineteen series of a full-range table of a high-tier territory are
\* computed and none has a zero: total revenue follows 0.035 and not 0.028,
\* other revenue follows the 0.025 that every tier uses
C15_Witness ==
    /\ pc = "DataFrame"
    /\ territoire = "La Reunion"
    /\ dates = date_range(2002, 2025)
    /\ \A f \in Fields : Telling(f)
    /\ Follows("Recettes_Totales", 35)
    /\ ~Follows("Recettes_Totales", 28)
    /\ Follows("Autres_Recettes", 25)

----------------------------------------------------------------------------
(* C16 *)

\* the initial coverage rate of the three tiers
CoverageBase == <<Dec(85, 100), Dec(88, 100), Dec(92, 100)>>

\* the initial management ratio of territory t
RatioBaseOf(t) ==
    IF t \in {"Saint-Pierre-et-Miquelon", "Wallis-et-Futuna"} THEN Dec(75, 1000)
    ELSE IF t \in {"Mayotte", "Guyane"} THEN Dec(65, 1000)
    ELSE Dec(55, 1000)

\* every row of the computed coverage rates is b x the improvement of its
\* year x its noise factor
CoverageFrom(b) ==
    \A i \in 1..Len(dates) :
        data["Taux_Couverture"][i] =
            RMul(RMul(b, coverage_improvement(dates[i])), draws["Taux_Couverture"][i])

\* every row of the computed management ratios is b x the improvement of
\* its year x its noise factor
RatioFrom(b) ==
    \A i \in 1..Len(dates) :
        data["Ratio_Gestion"][i] =
            RMul(RMul(b, ratio_improvement(dates[i])), draws["Ratio_Gestion"][i])

\* the fourteen rate fields and the coverage rate take the parameter of the
\* tier that the two lists give the territory
TierByTheTwoLists ==
    /\ \A f \in Fields \ SingleRateFields : Follows(f, RateTable[f][TierOf(territoire)])
    /\ CoverageFrom(CoverageBase[TierOf(territoire)])

\* C16 as stated: once the nineteen series are computed, every field that
\* tests the territory has taken the parameter of the tier given by the two
\* lists {Mayotte, Guyane} and {La Reunion, Polynesie francaise}, so the
\* management ratio too starts from the value of every territory of the
\* same tier.
C16_Original ==
    pc = "DataFrame" =>
        /\ TierByTheTwoLists
        /\ \A u \in TerritoireNames :
              TierOf(u) = TierOf(territoire) => RatioFrom(RatioBaseOf(u))

\* C16, amended: the fourteen rate fields and the coverage rate take the
\* parameter of the tier given by the two lists, unlisted territories the
\* moderate one; the management ratio tests two other lists: it starts from
\* 0.075 for Saint-Pierre-et-Miquelon and Wallis-et-Futuna, from 0.065 for
\* Mayotte and Guyane and from 0.055 for every other territory, La Reunion
\* and Polynesie francaise included.
C16_Tiers ==
    pc = "DataFrame" =>
        /\ TierByTheTwoLists
        /\ RatioFrom(RatioBaseOf(territoire))
        /\ territoire \in {"Saint-Pierre-et-Miquelon", "Wallis-et-Futuna"} =>
              /\ TierOf(territoire) = 3
              /\ RatioFrom(Dec(75, 1000))
              /\ (\E i \in 1..Len(dates) : data["Ratio_Gestion"][i][1] # 0) =>
                    ~RatioFrom(RatioBaseOf("Guadeloupe"))
        /\ territoire \in {"La Reunion", "Polynesie francaise"} =>
              /\ TierOf(territoire) = 2
              /\ RatioFrom(RatioBaseOf("Guadeloupe"))
        /\ territoire \notin PresetNames => TierOf(territoire) = 3

\* the series of Wallis-et-Futuna, a territory of neither growth list, are
\* computed without a zero: its rates are the moderate ones and its
\* management ratio starts from 0.075, not from the 0.055 of Guadeloupe
C16_Witness ==
    /\ pc = "DataFrame"
    /\ territoire = "Wallis-et-Futuna"
    /\ dates = date_range(2002, 2025)
    /\ \A f \in Fields : Telling(f)
    /\ Follows("RSA", 30)
    /\ RatioFrom(Dec(75, 1000))
    /\ ~RatioFrom(Dec(55, 1000))

----------------------------------------------------------------------------
(* C17 *)

\* 1 + r x (year - 2010), for a rate of r thousandths
LinearFrom2010(r, year) == Dec(1000 + r * (year - 2010), 1000)

\* the value from which the series of gated field f starts
GatedBase(f) ==
    IF f = "Contributions_Etat" THEN RMul(RInt(config.budget_base), Dec(30, 100))
    ELSE IF f = "Taux_Couverture" THEN CoverageBase[TierOf(territoire)]
    ELSE IF f = "Ratio_Gestion" THEN RatioBaseOf(territoire)
    ELSE RMul(RInt(config.budget_base), Dec(3, 100))

----------------------------------------------------------------------------
(* C18 *)

\* field, share of the budget in hundredths, tag, boost in tenths
TagRows ==
    {<<"Prestations_Familiales", 45, "familles_nombreuses", 14>>,
     <<"Allocations_Familiales", 25, "familles_nombreuses", 14>>,
     <<"Prestations_Solidarite", 20, "precarite", 15>>,
     <<"RSA", 15, "precarite", 16>>,
     <<"ARS", 8, "jeunesse", 13>>,
     <<"Prime_Naissance", 4, "jeunesse", 15>>}

\* the tag is, as a whole string, one of the tags of the resolved profile
IsTagOfProfile(tag) == \E k \in DOMAIN config.specificites : config.specificites[k] = tag

\* every computed cell of the field of row r is budget x share x growth x
\* the multiplier m (in tenths) x its noise factor
TaggedBy(r, m) ==
    \A i \in 1..Len(dates) :
        data[r[1]][i] =
            RMul(RMul(Dec(config.budget_base * r[2] * m, 1000),
                      Dec(1000 + RateTable[r[1]][TierOf(territoire)] * (i - 1), 1000)),
                 draws[r[1]][i])

\* C18: in a run of main every cell of the six tagged fields holds the boost
\* of its tag (1.4, 1.4, 1.5, 1.6, 1.3, 1.5) if the tag is, as a whole
\* string, an element of the profile's tag list and 1.0 if it is not, and
\* the summary recommends for a tag exactly when it is such an element; for
\* Mayotte, whose list holds "precarite_elevee", Prestations_Solidarite and
\* RSA hold 1.0 and the "precarite" recommendation is not made.
C18_TagMultiplier ==
    /\ (mpc = "generate" /\ pc = "DataFrame") =>
          /\ \A r \in TagRows : TaggedBy(r, IF IsTagOfProfile(r[3]) THEN r[4] ELSE 10)
          /\ territoire = "Mayotte" =>
                /\ \A r \in TagRows : TaggedBy(r, IF r[3] = "precarite" THEN 10 ELSE r[4])
                /\ ~IsTagOfProfile("precarite")
                /\ IsTagOfProfile("precarite_elevee")
    /\ mpc = "done" =>
          /\ \A tag \in {"precarite", "familles_nombreuses", "jeunesse", "isolement"} :
                tag \in report[1].recommendations <=> IsTagOfProfile(tag)
          /\ territoire = "Mayotte" =>
                report[1].recommendations = {"familles_nombreuses", "jeunesse"}

\* the series of Mayotte are computed in a run of main, without a zero in
\* the RSA: the RSA starts from budget x 0.15 without the 1.6 boost, the ARS
\* holds the 1.3 boost of "jeunesse"
C18_Witness ==
    /\ mpc = "generate"
    /\ pc = "DataFrame"
    /\ territoire = "Mayotte"
    /\ Telling("RSA")
    /\ data["RSA"][1] = RMul(Dec(280 * 15, 100), draws["RSA"][1])
    /\ data["RSA"][1] # RMul(RMul(Dec(280 * 15, 100), Dec(16, 10)), draws["RSA"][1])
    /\ TaggedBy(<<"ARS", 8, "jeunesse", 13>>, 13)

----------------------------------------------------------------------------
(* C19 *)

\* the eight fields that a branch of the era pass multiplies
EraFields ==
    {"Contributions_Etat", "Prestations_Familiales", "RSA", "Prestations_Solidarite",
     "Cotisations_Sociales", "Allocations_Familiales", "Prestations_Logement", "ARS"}

\* C19: the step that runs the era pass leaves Annee and the eleven fields
\* outside the eight unchanged in every row, keeps the columns and the
\* number of rows of every column, and leaves the profile, the territory
\* and the year range unchanged; after it the frame differs from the
\* step-7 lists in cells of the eight fields only.
C19_Frame ==
    /\ [][pc = "_add_caf_trends" =>
             /\ DOMAIN df' = DOMAIN df
             /\ \A c \in DOMAIN df : Len(df'[c]) = Len(df[c])
             /\ \A c \in ColumnNames \ EraFields : df'[c] = df[c]
             /\ config' = config
             /\ territoire' = territoire
             /\ start_year' = start_year
             /\ end_year' = end_year]_vars
    /\ [](PassDone =>
             /\ Cardinality(ColumnNames \ EraFields) = 12
             /\ \A c \in ColumnNames \ EraFields : df[c] = data[c]
             /\ \A c \in ColumnNames : Len(df[c]) = Len(dates))

\* a full-range pass over data without a zero has run: cells of RSA and
\* Prestations_Logement have changed, APL and Annee have not
C19_Witness ==
    /\ pc = "return"
    /\ dates = date_range(2002, 2025)
    /\ \A f \in Fields : Telling(f)
    /\ df["RSA"][7] # data["RSA"][7]
    /\ df["Prestations_Logement"][24] # data["Prestations_Logement"][24]
    /\ df["APL"] = data["APL"]
    /\ df["Annee"] = dates
    /\ config = configs["La Reunion"]

====
